---- MODULE Spec2Model ----
(***************************************************************************)
(* Model of the mapping synchronisation of novel-downloader-image-to-text- *)
(* mapping: SyncProcessor.sync_domain and the functions it calls           *)
(* (scripts/processors/sync_processor.py, image_downloader.py,             *)
(* image_hasher.py, utils/file_utils.py, config/domain_configs.py).        *)
(*                                                                         *)
(* A Python dict is a sequence of <<key, value>> pairs with distinct keys, *)
(* in insertion order.  A file on disk is a record: absent, corrupt (it    *)
(* exists but cannot be read or parsed), or a JSON object.  A cached image *)
(* file is absent, empty, junk (bytes that do not decode) or an image,     *)
(* which is carried as the (hash_size+1) x hash_size grayscale grid that   *)
(* _preprocess_image makes of it.                                          *)
(***************************************************************************)
EXTENDS Integers, Sequences, FiniteSets, TLC

\* ---------------------------------------------------------------- bounds
\* Longest filename mapping drawn at Init.
MaxEntries == 2

\* Side of the hash grid.  ImageHasher.__init__ takes hash_size (8 unless
\* told otherwise); the model hashes on a smaller grid.
hash_size == 2

\* ImageDownloader.__init__ takes max_concurrent (5 unless told otherwise),
\* the size of the semaphore; the model runs with a smaller limit.
max_concurrent == 2

\* Longest list of filenames handed to one download batch.
MaxFetch == 3

\* Longest list of domains one run of main synchronises.
MaxDomains == 2

\* Longest string handed to hamming_distance and similarity_percentage.
MaxBits == 3

\* ------------------------------------------------------- program constants
\* ImageDownloader.__init__: self.max_retries = 3
max_retries == 3

\* ------------------------------------------------------------ input sets
Filenames == {"a.png", "b.png", "c.png"}
\* Characters that filename mappings draw their values from.
Characters == {"yu", "yun"}
\* Characters that an existing hash mapping may hold.
HashCharacters == {"yu", "xue"}
ConfiguredDomain == "www.xiguashuwu.com"
UnknownDomain == "unknown.example"
Domains == {ConfiguredDomain, UnknownDomain}

\* ------------------------------------------------------------ Python dicts
Keys(m) == {m[i][1] : i \in 1..Len(m)}
Values(m) == {m[i][2] : i \in 1..Len(m)}
HasKey(m, k) == \E i \in 1..Len(m) : m[i][1] = k
Get(m, k) == m[CHOOSE i \in 1..Len(m) : m[i][1] = k][2]
KeyList(m) == [i \in 1..Len(m) |-> m[i][1]]
\* d[k] = v: an existing key keeps its place, a new key is appended.
DictSet(m, k, v) ==
    IF HasKey(m, k)
    THEN [i \in 1..Len(m) |-> IF m[i][1] = k THEN <<k, v>> ELSE m[i]]
    ELSE Append(m, <<k, v>>)
RECURSIVE DictUpdate(_, _)
\* d.update(other)
DictUpdate(m, other) ==
    IF other = <<>> THEN m
    ELSE DictUpdate(DictSet(m, Head(other)[1], Head(other)[2]), Tail(other))
\* All dicts of exactly n entries with distinct keys from K and values from V.
RECURSIVE DictsOfLen(_, _, _)
DictsOfLen(K, V, n) ==
    IF n = 0 THEN {<<>>}
    ELSE UNION {{Append(m, <<k, v>>) : k \in K \ Keys(m), v \in V} :
                m \in DictsOfLen(K, V, n - 1)}
DictsUpTo(K, V, n) == UNION {DictsOfLen(K, V, i) : i \in 0..n}

\* ------------------------------------------------------------------ files
NoFile == [kind |-> "absent", data |-> <<>>]
CorruptFile == [kind |-> "corrupt", data |-> <<>>]
JsonFile(m) == [kind |-> "json", data |-> m]
\* A file that holds valid JSON which is no object: a non-empty array.
ArrayFile == [kind |-> "array", data |-> <<>>]
FileExists(file) == file.kind # "absent"

\* read_json_file: the data, or None when the file is missing, unreadable or
\* not JSON (every exception is caught and logged).
read_json_file(file) ==
    IF file.kind = "json" THEN [none |-> FALSE, data |-> file.data]
    ELSE [none |-> TRUE, data |-> <<>>]

\* Python's `x or {}`: None and the empty dict both give {}.
OrEmpty(r) == IF r.none THEN <<>> ELSE r.data

\* write_json_file: writes a temporary file and renames it over the target.
\* ok says whether directory creation, the temporary write and the rename all
\* went through; on any exception the target is left alone, the temporary
\* file is removed and False is returned.
write_json_file(file, data, ok) ==
    IF ok THEN [ret |-> TRUE, file |-> JsonFile(data)]
    ELSE [ret |-> FALSE, file |-> file]

\* ---------------------------------------------------------- configuration
DOMAIN_CONFIGS ==
    [d \in {"www.xiguashuwu.com", "example.com"} |->
        IF d = "www.xiguashuwu.com"
        THEN [max_retries |-> 3, referrer_required |-> TRUE]
        ELSE [max_retries |-> 2, referrer_required |-> FALSE]]
\* A lookup that finds a configuration for every domain.
get_domain_config_always(domain) == [none |-> FALSE]
\* get_domain_config: the configuration, or None for an unknown domain.
get_domain_config(domain) == [none |-> domain \notin DOMAIN DOMAIN_CONFIGS]

\* ----------------------------------------------------------------- hasher
NoImage == [kind |-> "absent", pixels |-> <<>>]
EmptyImage == [kind |-> "empty", pixels |-> <<>>]
JunkImage == [kind |-> "junk", pixels |-> <<>>]
ImageFile(p) == [kind |-> "image", pixels |-> p]

\* Sample grids, pixel (x, y) of sample k: rows that rise, flat rows.
Pixel(k, x, y) == IF k = 1 THEN x + y ELSE 0
Img(k) == [i \in 1..((hash_size + 1) * hash_size) |->
              Pixel(k, (i - 1) % (hash_size + 1), (i - 1) \div (hash_size + 1))]
SampleImages == {Img(1), Img(2)}

\* The comparison of _calculate_dhash with <= in the place of <.
dhash_bit_lte(left_pixel, right_pixel) ==
    IF left_pixel <= right_pixel THEN "1" ELSE "0"
\* bit = "1" if left_pixel < right_pixel else "0"
dhash_bit(left_pixel, right_pixel) ==
    IF left_pixel < right_pixel THEN "1" ELSE "0"

\* The two loops of _calculate_dhash, over y and over x, appending one bit
\* per pair of neighbours; width = hash_size + 1.  An index past the end of
\* pixels raises IndexError.
RECURSIVE dhash_loop(_, _, _, _)
dhash_loop(pixels, y, x, hash_bits) ==
    IF y = hash_size THEN [raised |-> FALSE, hash_bits |-> hash_bits]
    ELSE IF x = hash_size THEN dhash_loop(pixels, y + 1, 0, hash_bits)
    ELSE IF y * (hash_size + 1) + x + 2 > Len(pixels)
    THEN [raised |-> TRUE, hash_bits |-> hash_bits]
    ELSE dhash_loop(pixels, y, x + 1,
                    Append(hash_bits,
                           dhash_bit(pixels[y * (hash_size + 1) + x + 1],
                                     pixels[y * (hash_size + 1) + x + 2])))

\* A hash that compares every pixel of the list with the next one, row ends
\* included.
calculate_dhash_full_width(pixels) ==
    [i \in 1..(Len(pixels) - 1) |-> dhash_bit(pixels[i], pixels[i + 1])]
\* _calculate_dhash: the bits joined into one string; any exception is
\* caught and gives "".
calculate_dhash(pixels) ==
    LET r == dhash_loop(pixels, 0, 0, <<>>)
    IN IF r.raised THEN <<>> ELSE r.hash_bits

\* _preprocess_image: the grayscale grid of a decoded image.
preprocess_image(content) == content.pixels

\* hash_image_data: Image.open fails on bytes that are no image; the
\* exception is caught and "" returned.
hash_image_data(content) ==
    IF content.kind = "image" THEN calculate_dhash(preprocess_image(content))
    ELSE <<>>

\* hash_image_file: reads the file and hashes its bytes; never raises.
hash_image_file(content) ==
    IF content.kind = "absent" THEN <<>> ELSE hash_image_data(content)

SampleHashes == {calculate_dhash(p) : p \in SampleImages}

\* hamming_distance without the check of the lengths: zip stops at the end
\* of the shorter string.
RECURSIVE hamming_distance_unchecked(_, _)
hamming_distance_unchecked(hash1, hash2) ==
    IF hash1 = <<>> \/ hash2 = <<>> THEN 0
    ELSE (IF Head(hash1) # Head(hash2) THEN 1 ELSE 0)
         + hamming_distance_unchecked(Tail(hash1), Tail(hash2))
\* The loop of hamming_distance over zip(hash1, hash2).
RECURSIVE diff_count(_, _)
diff_count(hash1, hash2) ==
    IF hash1 = <<>> \/ hash2 = <<>> THEN 0
    ELSE (IF Head(hash1) # Head(hash2) THEN 1 ELSE 0)
         + diff_count(Tail(hash1), Tail(hash2))
\* hamming_distance: strings of different lengths raise ValueError, which is
\* caught and gives -1.
hamming_distance(hash1, hash2) ==
    IF Len(hash1) # Len(hash2) THEN -1 ELSE diff_count(hash1, hash2)

\* A percentage, as the fraction num / den.
Percent(num, den) == [num |-> num, den |-> den]
\* similarity_percentage: 0.0 for different lengths, for a negative distance
\* and for the division by zero of two empty strings; otherwise
\* max(0.0, (1 - hamming_dist / len(hash1)) * 100).
similarity_percentage(hash1, hash2) ==
    IF Len(hash1) # Len(hash2) THEN Percent(0, 1)
    ELSE LET hamming_dist == hamming_distance(hash1, hash2)
         IN IF hamming_dist < 0 \/ Len(hash1) = 0 THEN Percent(0, 1)
            ELSE Percent((Len(hash1) - hamming_dist) * 100, Len(hash1))

\* ------------------------------------------------------- ValidationResult
ValidationResult(success) ==
    [success |-> success, errors |-> <<>>, warnings |-> <<>>,
     processed_files |-> 0, total_files |-> 0]
Err(kind, subject, hash) == [kind |-> kind, subject |-> subject, hash |-> hash]
\* add_error appends the error and clears the success flag.
add_error(result, e) ==
    [result EXCEPT !.errors = Append(@, e), !.success = FALSE]
add_warning(result, w) == [result EXCEPT !.warnings = Append(@, w)]
RECURSIVE add_errors(_, _)
add_errors(result, es) ==
    IF es = <<>> THEN result ELSE add_errors(add_error(result, Head(es)), Tail(es))

\* ------------------------------------------------------------- downloader
\* What the server answers to one request.
HttpError == [status |-> 404, body |-> NoImage]
Timeout == [status |-> 0, body |-> NoImage]
Ok(content) == [status |-> 200, body |-> content]
\* What the server answers to the successive requests for one filename: a
\* server that never delivers (an HTTP error, a timeout, then bytes that are
\* no image), one that delivers at the second request, one that delivers at
\* once.
NeverServe ==
    [i \in 1..max_retries |->
        CASE i = 1 -> HttpError [] i = 2 -> Timeout [] OTHER -> Ok(JunkImage)]
RetryThenServe(p) ==
    [i \in 1..max_retries |-> IF i = 1 THEN Timeout ELSE Ok(ImageFile(p))]
Serve(p) == [i \in 1..max_retries |-> Ok(ImageFile(p))]
ServerBehaviours == {NeverServe, RetryThenServe(Img(1)), Serve(Img(2))}

\* is_image_cached: the cache file exists and is not empty.
is_image_cached(cache, filename) == cache[filename].kind \notin {"absent", "empty"}

\* The retry loop of download_image_async: a request succeeds on HTTP 200
\* with a non-empty body that Image.verify accepts, and the body is then
\* written to the cache; the last failed attempt counts the file as failed.
RECURSIVE download_attempts(_, _, _, _)
download_attempts(cache, filename, responses, attempt) ==
    IF attempt >= max_retries
    THEN [success |-> FALSE, cache |-> cache, stat |-> "none"]
    ELSE LET response == responses[attempt + 1] IN
         IF response.status = 200 /\ response.body.kind = "image"
         THEN [success |-> TRUE,
               cache |-> [cache EXCEPT ![filename] = response.body],
               stat |-> "downloaded"]
         ELSE IF attempt = max_retries - 1
         THEN [success |-> FALSE, cache |-> cache, stat |-> "failed"]
         ELSE download_attempts(cache, filename, responses, attempt + 1)

download_image_async(cache, domain, filename, responses) ==
    IF is_image_cached(cache, filename)
    THEN [success |-> TRUE, cache |-> cache, stat |-> "cached"]
    ELSE IF get_domain_config(domain).none
    THEN [success |-> FALSE, cache |-> cache, stat |-> "failed"]
    ELSE download_attempts(cache, filename, responses, 0)

NoStats == [downloaded |-> 0, failed |-> 0, cached |-> 0, errors |-> <<>>]
\* The tasks of asyncio.gather, folded in task order onto self.stats.
RECURSIVE gather(_, _, _, _, _)
gather(cache, domain, filenames, behaviour, stats) ==
    IF filenames = <<>> THEN [cache |-> cache, stats |-> stats]
    ELSE LET filename == Head(filenames)
             r == download_image_async(cache, domain, filename, behaviour[filename])
             s == CASE r.stat = "downloaded" -> [stats EXCEPT !.downloaded = @ + 1]
                    [] r.stat = "cached" -> [stats EXCEPT !.cached = @ + 1]
                    [] r.stat = "failed" ->
                         [stats EXCEPT !.failed = @ + 1,
                                       !.errors = Append(@, Err("download", filename, <<>>))]
                    [] OTHER -> stats
         IN gather(r.cache, domain, Tail(filenames), behaviour, s)

\* download_images_batch_async (download_images_sync wraps it): the result
\* succeeds only when no file failed.
\* A result that looks at no counter.
batch_result_no_failures(g, filenames) ==
    [result |-> ValidationResult(TRUE), cache |-> g.cache, stats |-> g.stats]
\* Lines 276-311: the result made of self.stats once gather has returned.
batch_result(g, filenames) ==
    LET success == g.stats.failed = 0
        total_processed == g.stats.downloaded + g.stats.failed + g.stats.cached
        r0 == [ValidationResult(success) EXCEPT
                   !.processed_files = total_processed,
                   !.total_files = Len(filenames)]
        r1 == [r0 EXCEPT !.errors = g.stats.errors,
                         !.success = success /\ g.stats.errors = <<>>]
        r2 == IF ~success THEN add_warning(r1, "Failed to download images") ELSE r1
    IN [result |-> r2, cache |-> g.cache, stats |-> g.stats]
download_images_batch_async(cache, domain, filenames, behaviour) ==
    IF filenames = <<>>
    THEN [result |-> ValidationResult(TRUE), cache |-> cache, stats |-> NoStats]
    ELSE IF get_domain_config(domain).none
    THEN [result |-> add_error(ValidationResult(FALSE), Err("no_config", domain, <<>>)),
          cache |-> cache, stats |-> NoStats]
    ELSE batch_result(gather(cache, domain, filenames, behaviour, NoStats), filenames)

\* --------------------------------------------------------- sync processor
\* load_mappings: a file that is missing, unreadable or not JSON gives the
\* empty mapping (read_json_file returns None and `or {}` takes over), so
\* load_mappings raises nothing.
\* What a guarded read does to the hash mapping file: read_json_file is
\* called when the file exists.
read_io(hfile) == IF FileExists(hfile) THEN <<"read">> ELSE <<>>
load_mappings(ffile, hfile) ==
    [filename_mapping |-> IF FileExists(ffile) THEN OrEmpty(read_json_file(ffile)) ELSE <<>>,
     hash_mapping |-> IF FileExists(hfile) THEN OrEmpty(read_json_file(hfile)) ELSE <<>>,
     io |-> read_io(hfile)]

\* A difference that forgets to take the hashed characters away.
find_missing_hashes_all(fmap, hmap) == Values(fmap)
\* find_missing_hashes: the characters of the filename mapping that are no
\* value of the hash mapping.
find_missing_hashes(fmap, hmap) == Values(fmap) \ Values(hmap)

\* get_filenames_for_characters: one pass over the filename mapping, so the
\* characters and each character's filenames come in the mapping's order.
RECURSIVE get_filenames_loop(_, _, _)
get_filenames_loop(fmap, characters, char_to_filenames) ==
    IF fmap = <<>> THEN char_to_filenames
    ELSE LET filename == Head(fmap)[1]
             character == Head(fmap)[2]
             next == IF character \in characters
                     THEN IF HasKey(char_to_filenames, character)
                          THEN DictSet(char_to_filenames, character,
                                       Append(Get(char_to_filenames, character), filename))
                          ELSE DictSet(char_to_filenames, character, <<filename>>)
                     ELSE char_to_filenames
         IN get_filenames_loop(Tail(fmap), characters, next)
\* A collection that lists each character's filenames last first.
get_filenames_reversed(fmap, characters) ==
    LET c2f == get_filenames_loop(fmap, characters, <<>>)
        Rev(q) == [i \in 1..Len(q) |-> q[Len(q) + 1 - i]]
    IN [i \in 1..Len(c2f) |-> <<c2f[i][1], Rev(c2f[i][2])>>]
get_filenames_for_characters(fmap, characters) ==
    get_filenames_loop(fmap, characters, <<>>)

\* unique_filenames: every character's filenames, first occurrences kept.
RECURSIVE unique_filenames(_, _)
unique_filenames(char_to_filenames, acc) ==
    IF char_to_filenames = <<>> THEN acc
    ELSE LET fresh(f) == \A i \in 1..Len(acc) : acc[i] # f
         IN unique_filenames(Tail(char_to_filenames),
                             acc \o SelectSeq(Head(char_to_filenames)[2], fresh))

\* The inner loop of process_missing_characters over one character's
\* filenames.  character_hash starts as None, is assigned by every call of
\* hash_image_file and the loop breaks at the first non-empty hash.
NoHash == [none |-> TRUE, hash |-> <<>>, hashed |-> <<>>]
\* The loop without its break: every candidate that is there is hashed.
RECURSIVE try_filenames_no_break(_, _, _)
try_filenames_no_break(cache, filenames, acc) ==
    IF filenames = <<>> THEN acc
    ELSE LET filename == Head(filenames) IN
         IF cache[filename].kind # "absent"
         THEN LET h == hash_image_file(cache[filename])
              IN try_filenames_no_break(cache, Tail(filenames),
                     [none |-> FALSE, hash |-> IF h # <<>> THEN h ELSE acc.hash,
                      hashed |-> Append(acc.hashed, filename)])
         ELSE try_filenames_no_break(cache, Tail(filenames), acc)
RECURSIVE try_filenames(_, _, _)
try_filenames(cache, filenames, acc) ==
    IF filenames = <<>> THEN acc
    ELSE LET filename == Head(filenames) IN
         IF cache[filename].kind # "absent"
         THEN LET h == hash_image_file(cache[filename])
                  tried == [none |-> FALSE, hash |-> h,
                            hashed |-> Append(acc.hashed, filename)]
              IN IF h # <<>> THEN tried
                 ELSE try_filenames(cache, Tail(filenames), tried)
         ELSE try_filenames(cache, Tail(filenames), acc)

\* The outer loop: hash_results[character_hash] = character on a non-empty
\* hash, failed_hashes.append(character) when character_hash is None.
RECURSIVE create_hashes(_, _, _)
create_hashes(cache, char_to_filenames, acc) ==
    IF char_to_filenames = <<>> THEN acc
    ELSE LET character == Head(char_to_filenames)[1]
             t == try_filenames(cache, Head(char_to_filenames)[2], NoHash)
         IN create_hashes(cache, Tail(char_to_filenames),
                [hash_results |-> IF t.hash # <<>>
                                  THEN DictSet(acc.hash_results, t.hash, character)
                                  ELSE acc.hash_results,
                 failed_hashes |-> IF t.none THEN Append(acc.failed_hashes, character)
                                   ELSE acc.failed_hashes,
                 hashed |-> acc.hashed \o t.hashed])
NoHashes == [hash_results |-> <<>>, failed_hashes |-> <<>>, hashed |-> <<>>]

\* process_missing_characters.  exit names the return statement taken;
\* requested lists the filenames handed to the downloader.
\* Lines 201-224: the result once the hashing loop has produced h.
hashed_result(h, d, unique, char_to_filenames) ==
    LET failed == [i \in 1..Len(h.failed_hashes) |->
                      Err("failed_character", h.failed_hashes[i], <<>>)]
        r0 == [ValidationResult(h.failed_hashes = <<>>) EXCEPT
                  !.processed_files = Len(h.hash_results),
                  !.total_files = Len(char_to_filenames)]
        r1 == add_errors(r0, failed)
        r2 == IF h.failed_hashes # <<>>
              THEN add_warning(r1, "Failed to create hashes") ELSE r1
    IN [result |-> r2, cache |-> d.cache,
        exit |-> IF r2.success THEN "hashed" ELSE "hash_failed",
        requested |-> unique, stats |-> d.stats] @@ h
\* Lines 170-199: the download result d is returned when it failed,
\* otherwise the images are hashed.
downloaded_result(d, unique, char_to_filenames) ==
    IF ~d.result.success
    THEN [result |-> d.result, cache |-> d.cache, exit |-> "download_failed",
          requested |-> unique, stats |-> d.stats] @@ NoHashes
    ELSE hashed_result(create_hashes(d.cache, char_to_filenames, NoHashes),
                       d, unique, char_to_filenames)
\* Lines 154-168: the unique filenames are handed to the downloader.
download_unique(cache, domain, unique, char_to_filenames, behaviour) ==
    downloaded_result(download_images_batch_async(cache, domain, unique, behaviour),
                      unique, char_to_filenames)
process_missing_characters(cache, domain, char_to_filenames, behaviour) ==
    IF char_to_filenames = <<>>
    THEN [result |-> ValidationResult(TRUE), cache |-> cache, exit |-> "nothing",
          requested |-> <<>>, stats |-> NoStats] @@ NoHashes
    ELSE IF get_domain_config(domain).none
    THEN [result |-> add_error(ValidationResult(FALSE), Err("no_config", domain, <<>>)),
          cache |-> cache, exit |-> "no_config",
          requested |-> <<>>, stats |-> NoStats] @@ NoHashes
    ELSE download_unique(cache, domain, unique_filenames(char_to_filenames, <<>>),
                         char_to_filenames, behaviour)

\* update_hash_mapping: reads the file again, refuses the whole batch when
\* any new hash is held by another character, otherwise writes the union.
\* The value write_json_file returns is not looked at.
\* A check that takes every hash that is already there for a conflict.
Conflicts_any_existing(existing_mapping, new_hashes) ==
    LET there(p) == HasKey(existing_mapping, p[1])
    IN SelectSeq(new_hashes, there)
Conflicts(existing_mapping, new_hashes) ==
    LET clash(p) == HasKey(existing_mapping, p[1]) /\ Get(existing_mapping, p[1]) # p[2]
    IN SelectSeq(new_hashes, clash)
\* An update without the conflict check: dict.update overwrites.
update_hash_mapping_overwrite(hfile, new_hashes, write_ok) ==
    LET existing_mapping == IF FileExists(hfile) THEN OrEmpty(read_json_file(hfile)) ELSE <<>>
        w == write_json_file(hfile, DictUpdate(existing_mapping, new_hashes), write_ok)
    IN [result |-> ValidationResult(TRUE), file |-> w.file, written |-> w.ret,
        io |-> read_io(hfile) \o <<"write">>]
\* An update that merges into an empty table instead of the file's.
update_hash_mapping_no_reload(hfile, new_hashes, write_ok) ==
    LET w == write_json_file(hfile, new_hashes, write_ok)
    IN [result |-> ValidationResult(TRUE), file |-> w.file, written |-> w.ret,
        io |-> <<"write">>]
\* An update that writes the union before it looks for conflicts.
update_hash_mapping_write_first(hfile, new_hashes, write_ok) ==
    LET existing_mapping ==
            IF FileExists(hfile) THEN OrEmpty(read_json_file(hfile)) ELSE <<>>
        conflicts == Conflicts(existing_mapping, new_hashes)
        w == write_json_file(hfile, DictUpdate(existing_mapping, new_hashes), write_ok)
    IN [result |-> IF conflicts # <<>>
                   THEN add_error(ValidationResult(FALSE), Err("conflict", "", <<>>))
                   ELSE ValidationResult(TRUE),
        file |-> w.file, written |-> w.ret, io |-> read_io(hfile) \o <<"write">>]
update_hash_mapping(hfile, new_hashes, write_ok) ==
    IF new_hashes = <<>>
    THEN [result |-> ValidationResult(TRUE), file |-> hfile, written |-> FALSE,
          io |-> <<>>]
    ELSE LET existing_mapping ==
                 IF FileExists(hfile) THEN OrEmpty(read_json_file(hfile)) ELSE <<>>
             conflicts == Conflicts(existing_mapping, new_hashes)
         IN IF conflicts # <<>>
            THEN [result |-> add_errors(ValidationResult(FALSE),
                                 [i \in 1..Len(conflicts) |->
                                     Err("conflict", conflicts[i][2], conflicts[i][1])]),
                  file |-> hfile, written |-> FALSE, io |-> read_io(hfile)]
            ELSE LET updated_mapping == DictUpdate(existing_mapping, new_hashes)
                     w == write_json_file(hfile, updated_mapping, write_ok)
                 IN [result |-> [ValidationResult(TRUE) EXCEPT
                                    !.processed_files = Len(new_hashes),
                                    !.total_files = Len(updated_mapping)],
                     file |-> w.file, written |-> w.ret,
                     io |-> read_io(hfile) \o <<"write">>]

\* sync_domain as one call.  read_json_file returns whatever json.load
\* gives, so a mapping file holding a non-empty array reaches
\* find_missing_hashes as a list, and `.values()` at line 87 or 88 raises
\* AttributeError outside any try of sync_domain.  raised says that the
\* call ended in an exception instead of a result.
sync_returned(r, f) == [raised |-> FALSE, result |-> r, hash_file |-> f]
\* Lines 349-364: the final result.
sync_final(new_hashes, missing) ==
    LET r == [ValidationResult(TRUE) EXCEPT
                 !.processed_files = Len(new_hashes),
                 !.total_files = Cardinality(missing)]
    IN IF Len(new_hashes) < Cardinality(missing)
       THEN add_warning(r, "Failed to create hashes") ELSE r
\* Lines 343-347: what update_hash_mapping returned, u.
sync_updated(u, p, missing, hfile) ==
    IF ~u.result.success THEN sync_returned(u.result, hfile)
    ELSE sync_returned(sync_final(p.hash_results, missing), u.file)
\* Lines 333-345: what process_missing_characters returned, p.
sync_processed(p, missing, hfile, write_ok) ==
    IF ~p.result.success THEN sync_returned(p.result, hfile)
    ELSE IF p.hash_results = <<>>
    THEN sync_returned(sync_final(p.hash_results, missing), hfile)
    ELSE sync_updated(update_hash_mapping(hfile, p.hash_results, write_ok),
                      p, missing, hfile)
\* Lines 313-333: the missing characters.
sync_missing(missing, m, d, hfile, cache, behaviour, write_ok) ==
    IF missing = {} THEN sync_returned(ValidationResult(TRUE), hfile)
    ELSE sync_processed(
             process_missing_characters(
                 cache, d, get_filenames_for_characters(m.filename_mapping, missing),
                 behaviour),
             missing, hfile, write_ok)
\* Lines 305-313: the mappings load_mappings returned, m.
sync_loaded(m, d, hfile, cache, behaviour, write_ok) ==
    sync_missing(find_missing_hashes(m.filename_mapping, m.hash_mapping),
                 m, d, hfile, cache, behaviour, write_ok)
sync_domain(d, ffile, hfile, cache, behaviour, write_ok) ==
    IF ffile.kind = "array" \/ hfile.kind = "array"
    THEN [raised |-> TRUE, result |-> ValidationResult(FALSE), hash_file |-> hfile]
    ELSE sync_loaded(load_mappings(ffile, hfile), d, hfile, cache, behaviour, write_ok)

\* ------------------------------------------------------------------ state
VARIABLES
    domain,             \* the domain sync_domain is called for
    filename_file,      \* filename-mappings/<domain>.json
    hash_file,          \* hash-mappings/<domain>.json
    cache,              \* temp/<domain>_<filename>, per filename
    pc,                 \* position in sync_domain: idle, process, merge, done
    filename_mapping,   \* sync_domain's locals
    hash_mapping,
    missing_characters,
    char_to_filenames,
    process,            \* what process_missing_characters returned
    write_state,        \* "none", or "ok" / "failed": how write_json_file went
    result,             \* the ValidationResult sync_domain returns
    exit_path,          \* the return statement sync_domain took
    hash_file_before,   \* hash_file when the current call started
    history,            \* a summary of the first call, once it has returned
    io_log              \* what the current call did so far: "read" and
                        \* "write" of the hash mapping file, "download", "hash"

sync_vars == <<domain, filename_file, hash_file, cache, pc, filename_mapping,
               hash_mapping, missing_characters, char_to_filenames, process,
               write_state, result, exit_path, hash_file_before, history,
               io_log>>

\* State of one call of write_json_file, taken step by step.
VARIABLES
    fs,                 \* the directory: what the target path and the
                        \* temporary path hold
    w_pc,               \* position in write_json_file
    w_data,             \* the dict to write
    w_dumped,           \* how many entries json.dump has written so far
    w_ret,              \* the value returned: "none", "True" or "False"
    w_prev              \* what the target held when the call started

write_vars == <<fs, w_pc, w_data, w_dumped, w_ret, w_prev>>

\* State of one download_images_batch_async call, taken task by task.
VARIABLES
    f_names,            \* the filenames of the batch, in task order
    f_behaviour,        \* what the server answers for each filename
    f_cache0,           \* the cache directory when the batch started
    f_cache,            \* the cache directory, by cache path
    f_task,             \* per task: where it is and how it ended
    f_sem,              \* the semaphore's value
    f_stats,            \* self.stats
    f_pc,               \* "off", "tasks" (gather is waiting), "done"
    f_out,              \* what the sync made of the batch
    f_first             \* f_out of the first of two runs on the same input

fetch_vars == <<f_names, f_behaviour, f_cache0, f_cache, f_task, f_sem,
                f_stats, f_pc, f_out, f_first>>

\* State of one run of main.
VARIABLES
    m_args,             \* the command line: mode, explicit domains, dry_run
    m_domains,          \* --domains, or the domains sync_all_domains finds
    m_world,            \* per domain: its mapping files and the server
    m_stages,           \* how the validation steps and minification go
    m_pc,               \* position in main
    m_i,                \* how many domains the sync loop has handled
    m_sync_results,     \* the results dict of the sync loop
    m_all_results,      \* all_results
    m_exit,             \* the exit code, -1 while main runs
    m_raised,           \* the domains whose sync_domain call raised
    m_returned,         \* every result a stage or a sync_domain call returned
    m_hash,             \* per domain: hash-mappings/<domain>.json as it is now
    m_min               \* per domain: hash-mappings/<domain>.min.json

main_vars == <<m_args, m_domains, m_world, m_stages, m_pc, m_i, m_sync_results,
               m_all_results, m_exit, m_raised, m_returned, m_hash, m_min>>

\* State of one direct call of update_hash_mapping.
VARIABLES
    u_file,             \* the hash mapping file
    u_new,              \* new_hashes
    u_ok,               \* whether write_json_file will go through
    u_out               \* what the call returned and left on disk

update_vars == <<u_file, u_new, u_ok, u_out>>

\* State of one call of a function of ImageHasher.
VARIABLES
    h_args,             \* the arguments: file content, pixel list or two strings
    h_fn,               \* the function that was called, "none" before the call
    h_ret               \* what it returned

hasher_vars == <<h_args, h_fn, h_ret>>

\* State of the calls of download_image_async for one filename of one
\* domain, taken request by request.
VARIABLES
    d_domain,           \* the domain
    d_cache,            \* what the cache path of the filename holds
    d_pc,               \* position in download_image_async
    d_attempt,          \* the loop variable attempt
    d_log,              \* the requests of the current call, in order: what
                        \* the server answered and how the cache write went
    d_ret,              \* success of the tuple returned: "none", "True", "False"
    d_stats,            \* self.stats
    d_written,          \* the contents handed to f.write so far
    d_calls             \* how many calls have been started

download_vars == <<d_domain, d_cache, d_pc, d_attempt, d_log, d_ret, d_stats,
                   d_written, d_calls>>

\* State of one multi-file pass: a validator's loop over its files.
VARIABLES
    b_pass,             \* the per-file function the pass calls
    b_files,            \* per file: the result the per-file function returns
    b_i,                \* how many files the loop has handled
    b_overall,          \* overall_result
    b_pc                \* "off", "loop", "returned"

batch_vars == <<b_pass, b_files, b_i, b_overall, b_pc>>

\* The variables of the other specifications, which sync_domain's actions
\* leave alone.
aux_vars == <<write_vars, fetch_vars, main_vars, update_vars, hasher_vars,
             download_vars,
             batch_vars>>

vars == <<sync_vars, aux_vars>>

\* ---------------------------------------------------- write_json_file, steps
\* The two paths write_json_file touches.
TargetPath == [name |-> "hash_to_character.json", tmp |-> FALSE]
\* A temporary path that is the target itself.
temp_path_in_place(path_obj) == path_obj
\* path_obj.with_suffix(path_obj.suffix + '.tmp')
temp_path(path_obj) == [path_obj EXCEPT !.tmp = TRUE]
WritePaths == {TargetPath, [TargetPath EXCEPT !.tmp = TRUE]}
\* A file that holds the first k entries of a dict and no closing brace.
PartialFile(m, k) == [kind |-> "partial", data |-> SubSeq(m, 1, k)]

\* No call of write_json_file is under way.
WriteIdle ==
    /\ fs = [p \in WritePaths |-> NoFile]
    /\ w_pc = "idle"
    /\ w_data = <<>>
    /\ w_dumped = 0
    /\ w_ret = "none"
    /\ w_prev = NoFile

\* ------------------------------------------------- download batch, by task
\* A filename is a sequence of characters.
Alnum == {"a", "b", "c"}
FetchNames == {<<"a">>, <<"b">>, <<"a", "%">>, <<"c">>}
NameOrder == <<(<<"a">>), (<<"b">>), (<<"a", "%">>), (<<"c">>)>>
\* The character the filename mapping gives each filename.
CharOf(filename) ==
    CASE filename = <<"a">> -> "yu"
      [] filename = <<"b">> -> "yun"
      [] filename = <<"a", "%">> -> "xue"
      [] OTHER -> "yu"

\* get_cached_image_path: temp_dir / f"{domain}_{safe_filename}", where
\* safe_filename keeps the characters that are alphanumeric or one of ".-_".
safe_filename(filename) ==
    LET keep(c) == c \in Alnum \/ c \in {".", "-", "_"}
    IN SelectSeq(filename, keep)
get_cached_image_path(d, filename) == <<d, safe_filename(filename)>>
FetchPaths == {get_cached_image_path(ConfiguredDomain, n) : n \in FetchNames}

\* asyncio.Semaphore.locked: no permit left.
semaphore_never_locked(value) == FALSE
semaphore_locked(value) == value = 0

NewTask == [st |-> "new", attempt |-> 0, ret |-> "none"]
NoOutcome ==
    [none |-> TRUE, success |-> FALSE, downloaded |-> 0, cached |-> 0,
     failed |-> 0, hash_results |-> <<>>, failed_hashes |-> <<>>]

\* No download batch is under way.
FetchIdle ==
    /\ f_names = <<>>
    /\ f_behaviour = <<>>
    /\ f_cache0 = [p \in FetchPaths |-> NoImage]
    /\ f_cache = f_cache0
    /\ f_task = <<>>
    /\ f_sem = 0
    /\ f_stats = NoStats
    /\ f_pc = "off"
    /\ f_out = NoOutcome
    /\ f_first = NoOutcome

\* update_hash_mapping has not been called.
NoUpdate ==
    [called |-> FALSE, result |-> ValidationResult(TRUE), file |-> NoFile,
     written |-> FALSE, io |-> <<>>]
UpdateIdle ==
    /\ u_file = NoFile
    /\ u_new = <<>>
    /\ u_ok = TRUE
    /\ u_out = NoUpdate

\* Arguments of the three kinds.
Args(kind, content, pixels, a, b) ==
    [kind |-> kind, content |-> content, pixels |-> pixels, a |-> a, b |-> b]
\* No function of ImageHasher has been called.
HasherIdle ==
    /\ h_args = Args("none", NoImage, <<>>, <<>>, <<>>)
    /\ h_fn = "off"
    /\ h_ret = <<>>

\* download_image_async has not been called.
DownloadIdle ==
    /\ d_domain = ConfiguredDomain
    /\ d_cache = NoImage
    /\ d_pc = "off"
    /\ d_attempt = 0
    /\ d_log = <<>>
    /\ d_ret = "none"
    /\ d_stats = NoStats
    /\ d_written = <<>>
    /\ d_calls = 0

\* No multi-file pass has been called.
BatchIdle ==
    /\ b_pass = "none"
    /\ b_files = <<>>
    /\ b_i = 0
    /\ b_overall = ValidationResult(TRUE)
    /\ b_pc = "off"

\* main is not running.
MainIdle ==
    /\ m_args = [mode |-> "none", explicit |-> FALSE, dry_run |-> FALSE]
    /\ m_domains = <<>>
    /\ m_world = <<>>
    /\ m_stages = <<>>
    /\ m_pc = "off"
    /\ m_i = 0
    /\ m_sync_results = <<>>
    /\ m_all_results = <<>>
    /\ m_exit = -1
    /\ m_raised = {}
    /\ m_returned = <<>>
    /\ m_hash = <<>>
    /\ m_min = <<>>

env == <<domain, filename_file>>
NoProcess ==
    [result |-> ValidationResult(TRUE), exit |-> "nothing", requested |-> <<>>,
     stats |-> NoStats] @@ NoHashes
NoResult == ValidationResult(TRUE)

\* No call of sync_domain is under way.
SyncIdle ==
    /\ domain = ConfiguredDomain
    /\ filename_file = NoFile
    /\ hash_file = NoFile
    /\ cache = [f \in Filenames |-> NoImage]
    /\ pc = "off"
    /\ filename_mapping = <<>>
    /\ hash_mapping = <<>>
    /\ missing_characters = {}
    /\ char_to_filenames = <<>>
    /\ process = NoProcess
    /\ write_state = "none"
    /\ result = NoResult
    /\ exit_path = "none"
    /\ hash_file_before = NoFile
    /\ history = <<>>
    /\ io_log = <<>>

\* The cache directory is empty, or holds a stale file that is no image.
InitialCaches ==
    {[f \in Filenames |-> NoImage],
     [f \in Filenames |-> IF f = "a.png" THEN JunkImage ELSE NoImage]}

Init ==
    /\ domain \in Domains
    /\ filename_file \in {NoFile, CorruptFile} \cup
           {JsonFile(m) : m \in DictsUpTo(Filenames, Characters, MaxEntries)}
    /\ hash_file \in {NoFile, CorruptFile} \cup
           {JsonFile(m) : m \in DictsUpTo(SampleHashes, HashCharacters, 1)}
    /\ cache \in InitialCaches
    /\ pc = "idle"
    /\ filename_mapping = <<>>
    /\ hash_mapping = <<>>
    /\ missing_characters = {}
    /\ char_to_filenames = <<>>
    /\ process = NoProcess
    /\ write_state = "none"
    /\ result = NoResult
    /\ exit_path = "none"
    /\ hash_file_before = hash_file
    /\ history = <<>>
    /\ io_log = <<>>
    /\ WriteIdle
    /\ FetchIdle
    /\ MainIdle
    /\ UpdateIdle
    /\ HasherIdle
    /\ BatchIdle
    /\ DownloadIdle

\* sync_domain, lines 303-328: load both mappings, find the missing
\* characters, return the no-op result when there are none.
SyncLoad ==
    /\ pc = "idle"
    /\ \E m \in {load_mappings(filename_file, hash_file)} :
       \E missing \in {find_missing_hashes(m.filename_mapping, m.hash_mapping)} :
          /\ filename_mapping' = m.filename_mapping
          /\ hash_mapping' = m.hash_mapping
          /\ missing_characters' = missing
          /\ hash_file_before' = hash_file
          /\ io_log' = io_log \o m.io
          /\ IF missing = {}
             THEN /\ char_to_filenames' = <<>>
                  /\ result' = ValidationResult(TRUE)
                  /\ exit_path' = "noop"
                  /\ pc' = "done"
             ELSE /\ char_to_filenames' =
                         get_filenames_for_characters(m.filename_mapping, missing)
                  /\ UNCHANGED <<result, exit_path>>
                  /\ pc' = "process"
    /\ UNCHANGED <<env, hash_file, cache, process, write_state, history>>
    /\ UNCHANGED aux_vars

\* The final result of sync_domain, lines 345-364.
final_result(new_hashes, missing) ==
    LET r == [ValidationResult(TRUE) EXCEPT
                 !.processed_files = Len(new_hashes),
                 !.total_files = Cardinality(missing)]
    IN IF Len(new_hashes) < Cardinality(missing)
       THEN add_warning(r, "Failed to create hashes") ELSE r

\* The filenames whose download the call will ask the server for.
Requested(d, c2f) ==
    IF get_domain_config(d).none THEN {}
    ELSE {f \in Filenames : \E i \in 1..Len(c2f) : \E j \in 1..Len(c2f[i][2]) :
                                 c2f[i][2][j] = f}

\* What process_missing_characters did: the download of the requested
\* filenames (lines 168-170), then the hashing loop (lines 176-199).
process_io(p) ==
    (IF p.requested # <<>> THEN <<"download">> ELSE <<>>)
    \o (IF p.exit \in {"hashed", "hash_failed"} THEN <<"hash">> ELSE <<>>)

\* sync_domain, lines 330-338: process_missing_characters downloads and
\* hashes; a failed result is returned as it is, an empty set of new hashes
\* skips the update.
SyncProcess ==
    /\ pc = "process"
    /\ \E behaviour \in [Requested(domain, char_to_filenames) -> ServerBehaviours] :
         \E p \in {process_missing_characters(cache, domain, char_to_filenames, behaviour)} :
            /\ cache' = p.cache
            /\ io_log' = io_log \o process_io(p)
            /\ process' = [x \in DOMAIN NoProcess |-> p[x]]
            /\ IF ~p.result.success
               THEN /\ result' = p.result
                    /\ exit_path' = p.exit
                    /\ pc' = "done"
               ELSE IF p.hash_results = <<>>
               THEN /\ result' = final_result(p.hash_results, missing_characters)
                    /\ exit_path' = "synced_nothing"
                    /\ pc' = "done"
               ELSE /\ UNCHANGED <<result, exit_path>>
                    /\ pc' = "merge"
    /\ UNCHANGED <<env, hash_file, filename_mapping, hash_mapping,
                   missing_characters, char_to_filenames, write_state,
                   hash_file_before, history>>
    /\ UNCHANGED aux_vars

\* sync_domain, lines 339-364: update_hash_mapping, then the final result.
SyncMerge ==
    /\ pc = "merge"
    /\ \E write_ok \in BOOLEAN :
         \E u \in {update_hash_mapping(hash_file, process.hash_results, write_ok)} :
            /\ hash_file' = u.file
            /\ io_log' = io_log \o u.io
            /\ write_state' = IF ~u.result.success THEN "none"
                              ELSE IF u.written THEN "ok" ELSE "failed"
            /\ IF ~u.result.success
               THEN /\ result' = u.result
                    /\ exit_path' = "update_failed"
               ELSE /\ result' = final_result(process.hash_results, missing_characters)
                    /\ exit_path' = "synced"
    /\ pc' = "done"
    /\ UNCHANGED <<env, cache, filename_mapping, hash_mapping,
                   missing_characters, char_to_filenames, process,
                   hash_file_before, history>>
    /\ UNCHANGED aux_vars

\* Every missing character had a non-empty hash computed in this call.
EveryMissingHashed ==
    /\ exit_path \in {"synced", "update_failed"}
    /\ \A i \in 1..Len(char_to_filenames) :
         \E j \in 1..Len(char_to_filenames[i][2]) :
            hash_image_file(cache[char_to_filenames[i][2][j]]) # <<>>

\* sync_domain has returned; the caller calls it a second time on the same
\* files, with nothing changed in between.
SyncAgain ==
    /\ pc = "done"
    /\ history = <<>>
    /\ history' = Append(history,
                      [success |-> result.success,
                       every_missing_hashed |-> EveryMissingHashed])
    /\ pc' = "idle"
    /\ filename_mapping' = <<>>
    /\ hash_mapping' = <<>>
    /\ missing_characters' = {}
    /\ char_to_filenames' = <<>>
    /\ process' = NoProcess
    /\ write_state' = "none"
    /\ result' = NoResult
    /\ exit_path' = "none"
    /\ hash_file_before' = hash_file
    /\ io_log' = <<>>
    /\ UNCHANGED <<env, hash_file, cache>>
    /\ UNCHANGED aux_vars

Next == SyncLoad \/ SyncProcess \/ SyncMerge \/ SyncAgain

Spec == Init /\ [][Next]_vars

\* ------------------------------------------- specification: write_json_file
\* write_json_file(file_path, data) is called on a directory where the target
\* is absent, unparsable or a table, and where an earlier call may have left
\* a temporary file behind.
WriteTables == DictsUpTo(SampleHashes, HashCharacters, MaxEntries)
WriteInit ==
    /\ SyncIdle
    /\ FetchIdle
    /\ MainIdle
    /\ UpdateIdle
    /\ HasherIdle
    /\ BatchIdle
    /\ DownloadIdle
    /\ \E prev \in {NoFile, CorruptFile} \cup {JsonFile(m) : m \in WriteTables} :
       \E stale \in {NoFile, PartialFile(<<>>, 0)} :
          /\ fs = [p \in WritePaths |-> IF p = TargetPath THEN prev ELSE stale]
          /\ w_prev = prev
    /\ w_data \in WriteTables
    /\ w_pc = "ensure_directory"
    /\ w_dumped = 0
    /\ w_ret = "none"

\* Lines 89-91: ensure_directory(path_obj.parent); False is returned when
\* the directory cannot be made.
WriteEnsureDirectory ==
    /\ w_pc = "ensure_directory"
    /\ \E made \in BOOLEAN :
          IF made THEN w_pc' = "open" /\ w_ret' = w_ret
          ELSE w_pc' = "returned" /\ w_ret' = "False"
    /\ UNCHANGED <<fs, w_data, w_dumped, w_prev, sync_vars, fetch_vars, main_vars, update_vars, hasher_vars,
                   download_vars,
                   batch_vars>>

\* Lines 94-96: open(temp_path, 'w') creates the temporary file or empties
\* the one that is there.
WriteOpen ==
    /\ w_pc = "open"
    /\ fs' = [fs EXCEPT ![temp_path(TargetPath)] = PartialFile(w_data, 0)]
    /\ w_dumped' = 0
    /\ w_pc' = "dump"
    /\ UNCHANGED <<w_data, w_ret, w_prev, sync_vars, fetch_vars, main_vars, update_vars, hasher_vars,
                   download_vars,
                   batch_vars>>

\* Lines 97-98: json.dump writes the next entry into the open file.
WriteDump ==
    /\ w_pc = "dump"
    /\ w_dumped < Len(w_data)
    /\ w_dumped' = w_dumped + 1
    /\ fs' = [fs EXCEPT ![temp_path(TargetPath)] = PartialFile(w_data, w_dumped + 1)]
    /\ UNCHANGED <<w_pc, w_data, w_ret, w_prev, sync_vars, fetch_vars, main_vars, update_vars, hasher_vars,
                   download_vars,
                   batch_vars>>

\* Lines 96-98: json.dump writes the closing brace and the with block closes
\* the file.
WriteClose ==
    /\ w_pc = "dump"
    /\ w_dumped = Len(w_data)
    /\ fs' = [fs EXCEPT ![temp_path(TargetPath)] = JsonFile(w_data)]
    /\ w_pc' = "replace"
    /\ UNCHANGED <<w_data, w_dumped, w_ret, w_prev, sync_vars, fetch_vars, main_vars, update_vars, hasher_vars,
                   download_vars,
                   batch_vars>>

\* Line 101: temp_path.replace(path_obj), an atomic rename.
WriteReplace ==
    /\ w_pc = "replace"
    /\ \E tmp \in {temp_path(TargetPath)} :
          fs' = [p \in WritePaths |->
                    IF p = TargetPath THEN fs[tmp]
                    ELSE IF p = tmp THEN NoFile ELSE fs[p]]
    /\ w_pc' = "return"
    /\ UNCHANGED <<w_data, w_dumped, w_ret, w_prev, sync_vars, fetch_vars, main_vars, update_vars, hasher_vars,
                   download_vars,
                   batch_vars>>

\* Lines 103-104: return True.
WriteReturn ==
    /\ w_pc = "return"
    /\ w_ret' = "True"
    /\ w_pc' = "returned"
    /\ UNCHANGED <<fs, w_data, w_dumped, w_prev, sync_vars, fetch_vars, main_vars, update_vars, hasher_vars,
                   download_vars,
                   batch_vars>>

\* Lines 106-116: open, json.dump or replace raises an Exception; the
\* handler removes the temporary file when it is there and returns False.
WriteException ==
    /\ w_pc \in {"open", "dump", "replace"}
    /\ fs' = [fs EXCEPT ![temp_path(TargetPath)] = NoFile]
    /\ w_ret' = "False"
    /\ w_pc' = "returned"
    /\ UNCHANGED <<w_data, w_dumped, w_prev, sync_vars, fetch_vars, main_vars, update_vars, hasher_vars,
                   download_vars,
                   batch_vars>>

\* The call is interrupted (KeyboardInterrupt, which `except Exception` does
\* not catch, or the process is killed): nothing more is done.
WriteInterrupt ==
    /\ w_pc \in {"ensure_directory", "open", "dump", "replace", "return"}
    /\ w_pc' = "interrupted"
    /\ UNCHANGED <<fs, w_data, w_dumped, w_ret, w_prev, sync_vars, fetch_vars, main_vars, update_vars, hasher_vars,
                   download_vars,
                   batch_vars>>

WriteNext ==
    \/ WriteEnsureDirectory \/ WriteOpen \/ WriteDump \/ WriteClose
    \/ WriteReplace \/ WriteReturn \/ WriteException \/ WriteInterrupt

SpecWrite == WriteInit /\ [][WriteNext]_vars

\* --------------------------------- specification: download_images_batch_async
\* The batches: the filenames of NameOrder at a set of positions, in order.
FetchList(S) ==
    LET picked(n) == \E i \in S : NameOrder[i] = n
    IN SelectSeq(NameOrder, picked)
FetchLists ==
    {FetchList(S) : S \in {T \in SUBSET (1..Len(NameOrder)) :
                              T # {} /\ Cardinality(T) <= MaxFetch}}
\* The cache directory is empty, or holds the image of one filename.
InitialFetchCaches ==
    {[p \in FetchPaths |-> NoImage],
     [p \in FetchPaths |->
         IF p = get_cached_image_path(ConfiguredDomain, <<"b">>)
         THEN ImageFile(Img(1)) ELSE NoImage]}

FetchInit ==
    /\ SyncIdle
    /\ HasherIdle
    /\ BatchIdle
    /\ DownloadIdle
    /\ WriteIdle
    /\ UpdateIdle
    /\ f_names \in FetchLists
    /\ f_behaviour \in [1..Len(f_names) -> ServerBehaviours]
    /\ f_cache0 \in InitialFetchCaches
    /\ f_cache = f_cache0
    /\ f_task = [i \in 1..Len(f_names) |-> NewTask]
    /\ f_sem = max_concurrent
    /\ f_stats = NoStats
    /\ f_pc = "tasks"
    /\ f_out = NoOutcome
    /\ f_first = NoOutcome
    /\ MainIdle

\* The tasks that are executing download_image_async.
InFlight == {i \in 1..Len(f_task) : f_task[i].st = "fetching"}
NotStarted == {i \in 1..Len(f_task) : f_task[i].st = "new"}
Waiters == {i \in 1..Len(f_task) : f_task[i].st = "waiting"}
AllDone == \A i \in 1..Len(f_task) : f_task[i].st = "done"

\* Task i holds a permit and runs download_image_async up to its first
\* await (lines 131-147): a cached file is counted and the task returns,
\* giving the permit back; otherwise the first request is sent.
Enter(i) ==
    IF f_cache[get_cached_image_path(ConfiguredDomain, f_names[i])].kind
           \notin {"absent", "empty"}
    THEN /\ f_stats' = [f_stats EXCEPT !.cached = @ + 1]
         /\ f_task' = [f_task EXCEPT ![i] = [st |-> "done", attempt |-> 0, ret |-> "ok"]]
         /\ f_sem' = f_sem
    ELSE /\ f_stats' = f_stats
         /\ f_task' = [f_task EXCEPT ![i] = [st |-> "fetching", attempt |-> 0, ret |-> "none"]]
         /\ f_sem' = f_sem - 1

\* Lines 241-243, 251-256: gather starts the tasks in list order; each one
\* enters `async with semaphore`, and waits when the semaphore is locked.
FetchStart ==
    /\ f_pc = "tasks"
    /\ NotStarted # {}
    /\ \E i \in {CHOOSE j \in NotStarted : \A k \in NotStarted : j <= k} :
          IF semaphore_locked(f_sem)
          THEN /\ f_task' = [f_task EXCEPT ![i].st = "waiting"]
               /\ UNCHANGED <<f_stats, f_sem>>
          ELSE Enter(i)
    /\ UNCHANGED <<f_names, f_behaviour, f_cache0, f_cache, f_pc, f_out, f_first,
                   sync_vars, write_vars, main_vars, update_vars, hasher_vars,
                   download_vars,
                   batch_vars>>

\* Line 242: a released permit wakes the task that has waited longest.
FetchAcquire ==
    /\ f_pc = "tasks"
    /\ NotStarted = {}
    /\ Waiters # {}
    /\ ~semaphore_locked(f_sem)
    /\ \E i \in {CHOOSE j \in Waiters : \A k \in Waiters : j <= k} : Enter(i)
    /\ UNCHANGED <<f_names, f_behaviour, f_cache0, f_cache, f_pc, f_out, f_first,
                   sync_vars, write_vars, main_vars, update_vars, hasher_vars,
                   download_vars,
                   batch_vars>>

\* Lines 149-196: the answer to the pending request of task i arrives.  An
\* image is written to the cache path and counted as downloaded; anything
\* else is retried, and counted as failed at the last attempt.  A task that
\* returns leaves `async with semaphore`.
FetchRespond(i) ==
    /\ f_pc = "tasks"
    /\ NotStarted = {}
    /\ f_task[i].st = "fetching"
    /\ \E response \in {f_behaviour[i][f_task[i].attempt + 1]} :
          IF response.status = 200 /\ response.body.kind = "image"
          THEN /\ f_cache' = [f_cache EXCEPT
                    ![get_cached_image_path(ConfiguredDomain, f_names[i])] = response.body]
               /\ f_stats' = [f_stats EXCEPT !.downloaded = @ + 1]
               /\ f_task' = [f_task EXCEPT ![i].st = "done", ![i].ret = "ok"]
               /\ f_sem' = f_sem + 1
          ELSE IF f_task[i].attempt = max_retries - 1
          THEN /\ f_stats' = [f_stats EXCEPT
                    !.failed = @ + 1,
                    !.errors = Append(@, Err("download", f_names[i], <<>>))]
               /\ f_task' = [f_task EXCEPT ![i].st = "done", ![i].ret = "failed"]
               /\ f_sem' = f_sem + 1
               /\ f_cache' = f_cache
          ELSE /\ f_task' = [f_task EXCEPT ![i].attempt = @ + 1]
               /\ UNCHANGED <<f_cache, f_stats, f_sem>>
    /\ UNCHANGED <<f_names, f_behaviour, f_cache0, f_pc, f_out, f_first,
                   sync_vars, write_vars, main_vars, update_vars, hasher_vars,
                   download_vars,
                   batch_vars>>

\* What process_missing_characters makes of the finished batch (lines
\* 172-199): the failed download result as it is, or the hashes of the
\* cached files of every character's filenames.
FetchOutcome ==
    LET fmap == [i \in 1..Len(f_names) |-> <<f_names[i], CharOf(f_names[i])>>]
        c2f == get_filenames_for_characters(fmap, Values(fmap))
        by_name == [n \in FetchNames |->
                       f_cache[get_cached_image_path(ConfiguredDomain, n)]]
        h == create_hashes(by_name, c2f, NoHashes)
        counters == [none |-> FALSE, downloaded |-> f_stats.downloaded,
                     cached |-> f_stats.cached, failed |-> f_stats.failed]
    IN IF f_stats.failed # 0
       THEN counters @@ [success |-> FALSE, hash_results |-> <<>>,
                         failed_hashes |-> <<>>]
       ELSE counters @@ [success |-> h.failed_hashes = <<>>,
                         hash_results |-> h.hash_results,
                         failed_hashes |-> h.failed_hashes]

\* Lines 256-311: gather returns when every task has returned.
FetchGather ==
    /\ f_pc = "tasks"
    /\ AllDone
    /\ f_out' = FetchOutcome
    /\ f_pc' = "done"
    /\ UNCHANGED <<f_names, f_behaviour, f_cache0, f_cache, f_task, f_sem,
                   f_stats, f_first, sync_vars, write_vars, main_vars, update_vars, hasher_vars,
                   download_vars,
                   batch_vars>>

\* The same batch is run a second time from the same cache directory, with
\* the same answers from the server.
FetchAgain ==
    /\ f_pc = "done"
    /\ f_first.none
    /\ f_first' = f_out
    /\ f_out' = NoOutcome
    /\ f_cache' = f_cache0
    /\ f_task' = [i \in 1..Len(f_names) |-> NewTask]
    /\ f_sem' = max_concurrent
    /\ f_stats' = NoStats
    /\ f_pc' = "tasks"
    /\ UNCHANGED <<f_names, f_behaviour, f_cache0, sync_vars, write_vars, main_vars, update_vars, hasher_vars,
                   download_vars,
                   batch_vars>>

FetchNext ==
    \/ FetchStart
    \/ FetchAcquire
    \/ \E i \in 1..Len(f_task) : FetchRespond(i)
    \/ FetchGather

\* One batch.  The event loop runs every task that can run, and every
\* request ends, with an answer or with the session's timeout.
FetchFairness ==
    /\ WF_vars(FetchStart)
    /\ WF_vars(FetchAcquire)
    /\ WF_vars(\E i \in 1..Len(f_task) : FetchRespond(i))
SpecFetch == FetchInit /\ [][FetchNext]_vars /\ FetchFairness

\* Two runs of the same batch.
FetchTwiceNext == FetchNext \/ FetchAgain
SpecFetchTwice == FetchInit /\ [][FetchTwiceNext]_vars

\* ------------------------------------------------------ specification: main
\* The domains of a run.  A domain is named by the stem of its mapping file;
\* the third one has the name of a pipeline step.
MainDomains == {ConfiguredDomain, UnknownDomain, "minification"}
RECURSIVE DomainLists(_)
DomainLists(n) ==
    IF n = 0 THEN {<<>>}
    ELSE UNION {{Append(l, d) : d \in MainDomains \ {l[i] : i \in 1..Len(l)}} :
                l \in DomainLists(n - 1)}
\* What a domain's sync finds: the mapping files and the server's answers.
OneEntry == <<(<<"a.png", "yu">>)>>
InSync ==
    [ffile |-> JsonFile(OneEntry),
     hfile |-> JsonFile(<<(<<calculate_dhash(Img(1)), "yu">>)>>), serve |-> NeverServe]
ArrayMapping == [ffile |-> ArrayFile, hfile |-> NoFile, serve |-> NeverServe]
MissingUnserved == [ffile |-> JsonFile(OneEntry), hfile |-> NoFile, serve |-> NeverServe]
MissingServed == [ffile |-> JsonFile(OneEntry), hfile |-> NoFile, serve |-> Serve(Img(2))]
NoMapping == [ffile |-> NoFile, hfile |-> NoFile, serve |-> NeverServe]
\* Two characters, one of them hashed already; the server delivers an image
\* with another hash for the second.
MissingSecond ==
    [ffile |-> JsonFile(<<(<<"a.png", "yu">>), (<<"b.png", "yun">>)>>),
     hfile |-> JsonFile(<<(<<calculate_dhash(Img(1)), "yu">>)>>), serve |-> Serve(Img(2))]
\* How the validation steps and the minification go: all pass, or one fails.
AllPass ==
    [json_validation |-> TRUE, duplicate_removal |-> TRUE, sorting |-> TRUE,
     hash_validation |-> TRUE, minification |-> TRUE]
StageOutcomes ==
    {AllPass, [AllPass EXCEPT !.json_validation = FALSE],
     [AllPass EXCEPT !.sorting = FALSE], [AllPass EXCEPT !.hash_validation = FALSE],
     [AllPass EXCEPT !.minification = FALSE]}

MainInit ==
    /\ SyncIdle
    /\ HasherIdle
    /\ BatchIdle
    /\ DownloadIdle
    /\ WriteIdle
    /\ FetchIdle
    /\ UpdateIdle
    /\ m_args \in [mode : {"validate_only", "sync_only", "full_pipeline"},
                    explicit : BOOLEAN, dry_run : BOOLEAN]
    /\ m_domains \in UNION {DomainLists(n) : n \in 1..MaxDomains}
    /\ m_world \in [1..Len(m_domains) ->
                       {InSync, ArrayMapping, MissingUnserved, MissingServed, NoMapping,
                        MissingSecond}]
    \* sync_all_domains finds a domain by its filename mapping file.
    /\ m_args.explicit \/ \A i \in 1..Len(m_domains) : FileExists(m_world[i].ffile)
    /\ m_stages \in StageOutcomes
    /\ m_pc = "validate"
    /\ m_i = 0
    /\ m_sync_results = <<>>
    /\ m_all_results = <<>>
    /\ m_exit = -1
    /\ m_raised = {}
    /\ m_returned = <<>>
    /\ m_hash = [i \in 1..Len(m_domains) |-> m_world[i].hfile]
    /\ m_min = [i \in 1..Len(m_domains) |-> NoFile]

\* main, lines 389-405: which stages the mode runs.
run_validation == m_args.mode \in {"validate_only", "full_pipeline"}
run_sync == m_args.mode \in {"sync_only", "full_pipeline"}
run_minify == m_args.mode = "full_pipeline"

\* run_validation_pipeline: the results of the steps, in order; a failed
\* JSON validation returns at once (lines 217-219); a dry run runs no step.
\* A pipeline that goes on after a failed JSON validation.
validation_results_no_stop(stages, dry_run) ==
    IF dry_run THEN <<>>
    ELSE <<(<<"json_validation", ValidationResult(stages.json_validation)>>),
           (<<"duplicate_removal", ValidationResult(stages.duplicate_removal)>>),
           (<<"sorting", ValidationResult(stages.sorting)>>),
           (<<"hash_validation", ValidationResult(stages.hash_validation)>>)>>
validation_results(stages, dry_run) ==
    IF dry_run THEN <<>>
    ELSE IF ~stages.json_validation
    THEN <<(<<"json_validation", ValidationResult(FALSE)>>)>>
    ELSE <<(<<"json_validation", ValidationResult(TRUE)>>),
           (<<"duplicate_removal", ValidationResult(stages.duplicate_removal)>>),
           (<<"sorting", ValidationResult(stages.sorting)>>),
           (<<"hash_validation", ValidationResult(stages.hash_validation)>>)>>

\* main, lines 410-429: the validation pipeline; a failed step ends the run
\* with exit code 1.
MainValidate ==
    /\ m_pc = "validate"
    /\ IF ~run_validation
       THEN /\ m_pc' = "sync"
            /\ UNCHANGED <<m_all_results, m_exit, m_returned>>
       ELSE \E v \in {validation_results(m_stages, m_args.dry_run)} :
               /\ m_all_results' = DictUpdate(m_all_results, v)
               /\ m_returned' = m_returned \o v
               /\ IF ~m_args.dry_run /\ \E i \in 1..Len(v) : ~v[i][2].success
                  THEN m_exit' = 1 /\ m_pc' = "exited"
                  ELSE m_exit' = m_exit /\ m_pc' = "sync"
    /\ UNCHANGED <<m_args, m_domains, m_world, m_stages, m_i, m_sync_results,
                   m_raised, m_hash, m_min, sync_vars, write_vars, fetch_vars, update_vars, hasher_vars,
                   download_vars,
                   batch_vars>>

\* One turn of the loop over the domains: run_synchronization, lines
\* 348-354, calls sync_domain bare, so an exception leaves the loop and
\* main's handler (lines 451-456) exits 1; sync_all_domains, lines 396-406,
\* catches it and records a failed result.
MainSyncDomain ==
    /\ m_pc = "sync"
    /\ run_sync /\ ~m_args.dry_run
    /\ m_i < Len(m_domains)
    /\ \E d \in {m_domains[m_i + 1]} :
       \E w \in {m_world[m_i + 1]} :
       \E r \in {sync_domain(d, w.ffile, m_hash[m_i + 1], [f \in Filenames |-> NoImage],
                              [f \in Filenames |-> w.serve], TRUE)} :
          IF r.raised
          THEN /\ m_raised' = m_raised \cup {d}
               /\ m_returned' = m_returned
               /\ m_hash' = m_hash
               /\ IF m_args.explicit
                  THEN /\ m_exit' = 1
                       /\ m_pc' = "exited"
                       /\ UNCHANGED <<m_i, m_sync_results>>
                  ELSE /\ m_sync_results' =
                              DictSet(m_sync_results, d,
                                      add_error(ValidationResult(FALSE),
                                                Err("exception", d, <<>>)))
                       /\ m_i' = m_i + 1
                       /\ UNCHANGED <<m_exit, m_pc>>
          ELSE /\ m_sync_results' = DictSet(m_sync_results, d, r.result)
               /\ m_returned' = Append(m_returned, <<d, r.result>>)
               /\ m_hash' = [m_hash EXCEPT ![m_i + 1] = r.hash_file]
               /\ m_i' = m_i + 1
               /\ UNCHANGED <<m_exit, m_pc, m_raised>>
    /\ UNCHANGED <<m_args, m_domains, m_world, m_stages, m_all_results, m_min,
                   sync_vars, write_vars, fetch_vars, update_vars, hasher_vars,
                   download_vars,
                   batch_vars>>

\* main, lines 433-440: all_results.update(sync_results); a dry run and a
\* mode without sync give no sync result.
MainSyncMerge ==
    /\ m_pc = "sync"
    /\ ~run_sync \/ m_args.dry_run \/ m_i = Len(m_domains)
    /\ m_all_results' = DictUpdate(m_all_results, m_sync_results)
    /\ m_pc' = "minify"
    /\ UNCHANGED <<m_args, m_domains, m_world, m_stages, m_i, m_sync_results,
                   m_exit, m_raised, m_returned, m_hash, m_min,
                   sync_vars, write_vars, fetch_vars, update_vars, hasher_vars,
                   download_vars,
                   batch_vars>>

\* A dump that does not keep the order of the keys.
minify_json_data_reordered(data) ==
    [compact |-> TRUE, entries |-> [i \in 1..Len(data) |-> data[Len(data) + 1 - i]]]
\* minify_json_data: json.dumps with compact separators and sort_keys=False;
\* the string holds the entries in the dict's order and no whitespace.
minify_json_data(data) == [compact |-> TRUE, entries |-> data]
\* A file holding a string json.dumps made; json.load gives its entries.
TextFile(text) == [kind |-> "json", data |-> text.entries]
\* generate_minified_file: the source is read, dumped in compact form and
\* written to <stem>.min.json.  A source that cannot be read gives an error
\* and writes nothing; a write that raises gives an error and leaves the
\* file that open() emptied.
generate_minified_file(source, target, write_ok) ==
    IF read_json_file(source).none
    THEN [result |-> ValidationResult(FALSE), target |-> target]
    ELSE IF ~write_ok
    THEN [result |-> ValidationResult(FALSE), target |-> PartialFile(<<>>, 0)]
    ELSE [result |-> ValidationResult(TRUE),
          target |-> TextFile(minify_json_data(read_json_file(source).data))]

\* main, lines 442-449 and run_minification: every mapping file that exists
\* is minified and all_results["minification"] = minify_result; a dry run
\* minifies nothing and gives a successful result.
MainMinify ==
    /\ m_pc = "minify"
    /\ IF run_minify
       THEN /\ m_all_results' =
                  DictSet(m_all_results, "minification",
                          ValidationResult(m_args.dry_run \/ m_stages.minification))
            /\ m_returned' =
                  IF m_args.dry_run THEN m_returned
                  ELSE Append(m_returned,
                              <<"minification", ValidationResult(m_stages.minification)>>)
            /\ m_min' =
                  IF m_args.dry_run THEN m_min
                  ELSE [i \in 1..Len(m_domains) |->
                           IF FileExists(m_hash[i])
                           THEN generate_minified_file(m_hash[i], m_min[i],
                                                       m_stages.minification).target
                           ELSE m_min[i]]
       ELSE UNCHANGED <<m_all_results, m_returned, m_min>>
    /\ m_pc' = "exit"
    /\ UNCHANGED <<m_args, m_domains, m_world, m_stages, m_i, m_sync_results,
                   m_exit, m_raised, m_hash, sync_vars, write_vars, fetch_vars,
                   update_vars, hasher_vars, download_vars,
                   batch_vars>>

\* main, lines 466-486: exit 1 when fewer results are successful than there
\* are results, exit 0 otherwise.
MainExit ==
    /\ m_pc = "exit"
    /\ \E successful_steps \in
            {Cardinality({i \in 1..Len(m_all_results) : m_all_results[i][2].success})} :
       \E total_steps \in {Len(m_all_results)} :
          m_exit' = IF total_steps > 0 /\ successful_steps < total_steps THEN 1 ELSE 0
    /\ m_pc' = "exited"
    /\ UNCHANGED <<m_args, m_domains, m_world, m_stages, m_i, m_sync_results,
                   m_all_results, m_raised, m_returned, m_hash, m_min,
                   sync_vars, write_vars,
                   fetch_vars, update_vars, hasher_vars,
                   download_vars,
                   batch_vars>>

MainNext == MainValidate \/ MainSyncDomain \/ MainSyncMerge \/ MainMinify \/ MainExit

SpecMain == MainInit /\ [][MainNext]_vars

\* ---------------------------------------- specification: update_hash_mapping
\* update_hash_mapping(hash_file, new_hashes) is called on any hash mapping
\* file with any batch of new hashes.
UpdateTables == DictsUpTo(SampleHashes, HashCharacters, MaxEntries)
UpdateInit ==
    /\ SyncIdle
    /\ HasherIdle
    /\ BatchIdle
    /\ DownloadIdle
    /\ WriteIdle
    /\ FetchIdle
    /\ MainIdle
    /\ u_file \in {NoFile, CorruptFile} \cup {JsonFile(m) : m \in UpdateTables}
    /\ u_new \in UpdateTables
    /\ u_ok \in BOOLEAN
    /\ u_out = NoUpdate

UpdateCall ==
    /\ ~u_out.called
    /\ u_out' = [called |-> TRUE] @@ update_hash_mapping(u_file, u_new, u_ok)
    /\ UNCHANGED <<u_file, u_new, u_ok, sync_vars, write_vars, fetch_vars, main_vars,
                   hasher_vars,
                   download_vars,
                   batch_vars>>

UpdateNext == UpdateCall

SpecUpdate == UpdateInit /\ [][UpdateNext]_vars

\* ------------------------------------------------ specification: ImageHasher
\* Gray levels of the pixel lists.
PixelValues == {0, 255}
Grids == [1..((hash_size + 1) * hash_size) -> PixelValues]
\* A list one pixel short of a grid.
ShortGrid == [i \in 1..((hash_size + 1) * hash_size - 1) |-> 0]
\* File contents: no file, no bytes, bytes that are no image, an image that
\* Image.open accepts and that cannot be resized (it gives no pixels), and
\* images.
Contents ==
    {NoImage, EmptyImage, JunkImage, ImageFile(<<>>)} \cup {ImageFile(p) : p \in Grids}
RECURSIVE Strings(_)
Strings(n) ==
    IF n = 0 THEN {<<>>}
    ELSE {Append(t, c) : t \in Strings(n - 1), c \in {"0", "1", "x"}}
StringsUpTo(n) == UNION {Strings(i) : i \in 0..n}

HasherInit ==
    /\ SyncIdle
    /\ WriteIdle
    /\ FetchIdle
    /\ MainIdle
    /\ UpdateIdle
    /\ BatchIdle
    /\ DownloadIdle
    /\ h_args \in
          {Args("content", c, <<>>, <<>>, <<>>) : c \in Contents}
          \cup {Args("pixels", NoImage, p, <<>>, <<>>) : p \in Grids \cup {ShortGrid, <<>>}}
          \cup {Args("pair", NoImage, <<>>, a, b) :
                    a \in StringsUpTo(MaxBits), b \in StringsUpTo(MaxBits)}
    /\ h_fn = "none"
    /\ h_ret = <<>>

Returned(fn, value) ==
    /\ h_fn = "none"
    /\ h_fn' = fn
    /\ h_ret' = value
    /\ UNCHANGED <<h_args, sync_vars, write_vars, fetch_vars, main_vars, update_vars,
                   download_vars,
                   batch_vars>>

HashImageData ==
    /\ h_args.kind = "content" /\ h_args.content.kind # "absent"
    /\ Returned("hash_image_data", hash_image_data(h_args.content))
HashImageFile ==
    /\ h_args.kind = "content"
    /\ Returned("hash_image_file", hash_image_file(h_args.content))
CalculateDhash ==
    /\ h_args.kind = "pixels"
    /\ Returned("_calculate_dhash", calculate_dhash(h_args.pixels))
HammingDistance ==
    /\ h_args.kind = "pair"
    /\ Returned("hamming_distance", hamming_distance(h_args.a, h_args.b))
SimilarityPercentage ==
    /\ h_args.kind = "pair"
    /\ Returned("similarity_percentage", similarity_percentage(h_args.a, h_args.b))

HasherNext ==
    \/ HashImageData \/ HashImageFile \/ CalculateDhash
    \/ HammingDistance \/ SimilarityPercentage

SpecHasher == HasherInit /\ [][HasherNext]_vars

\* ------------------------------------ specification: download_image_async
\* The domains download_image_async is called for.
DownloadDomains == DOMAIN DOMAIN_CONFIGS \cup {UnknownDomain}
\* What the server answers to one request: an HTTP error, a timeout or
\* another exception, HTTP 200 with no content, with bytes that are no
\* image, with an image.
DownloadResponses ==
    {HttpError, Timeout, Ok(EmptyImage), Ok(JunkImage), Ok(ImageFile(Img(1)))}
\* How open(cache_path, 'wb') and f.write(content) go: the content is
\* written, open raises and the path is left as it was, or write raises with
\* part of the content written.
WriteOutcomes == {"written", "open_failed", "truncated"}
\* Part of the bytes of an image: a file that is no image.
TruncatedImage == JunkImage

\* Lines 140-157: status 200, a content that is not empty and that
\* Image.verify accepts.
valid_image_response(response) ==
    response.status = 200 /\ response.body.kind = "image"
\* A test of the last attempt that never holds.
last_attempt_never(attempt) == FALSE
\* attempt == self.max_retries - 1
last_attempt(attempt) == attempt = max_retries - 1
\* self.stats['errors'].append(error_msg); self.stats['failed'] += 1
count_failed(stats, subject) ==
    [stats EXCEPT !.failed = @ + 1, !.errors = Append(@, Err("download", subject, <<>>))]

DownloadInit ==
    /\ SyncIdle
    /\ WriteIdle
    /\ FetchIdle
    /\ MainIdle
    /\ UpdateIdle
    /\ HasherIdle
    /\ BatchIdle
    /\ d_domain \in DownloadDomains
    /\ d_cache \in {NoImage, ImageFile(Img(2))}
    /\ d_pc = "check_cache"
    /\ d_attempt = 0
    /\ d_log = <<>>
    /\ d_ret = "none"
    /\ d_stats = NoStats
    /\ d_written = <<>>
    /\ d_calls = 1

\* Lines 118-131: a file that is_image_cached accepts is counted as cached
\* and reported as a success; a URL that cannot be constructed is counted as
\* failed; otherwise the loop starts.
DownloadCheckCache ==
    /\ d_pc = "check_cache"
    /\ IF d_cache.kind \notin {"absent", "empty"}
       THEN /\ d_stats' = [d_stats EXCEPT !.cached = @ + 1]
            /\ d_ret' = "True"
            /\ d_pc' = "returned"
       ELSE IF get_domain_config(d_domain).none
       THEN /\ d_stats' = count_failed(d_stats, "url")
            /\ d_ret' = "False"
            /\ d_pc' = "returned"
       ELSE /\ d_pc' = "request"
            /\ UNCHANGED <<d_stats, d_ret>>
    /\ UNCHANGED <<d_domain, d_cache, d_attempt, d_log, d_written, d_calls,
                   sync_vars, write_vars, fetch_vars, main_vars, update_vars,
                   hasher_vars,
                   batch_vars>>

\* Lines 133-198: one pass of `for attempt in range(self.max_retries)`.
\* The request is sent; a valid image is written to the cache path and the
\* call returns; an exception of open or write is caught by the handler
\* at line 187 like any failure of the request.  A failure at the last
\* attempt is counted and returned, another one goes to the next attempt,
\* and a loop that ends returns at line 198.
DownloadRequest ==
    /\ d_pc = "request"
    /\ \E response \in DownloadResponses : \E w \in WriteOutcomes :
          /\ valid_image_response(response) \/ w = "written"
          /\ d_log' = Append(d_log, [response |-> response,
                                     valid |-> valid_image_response(response),
                                     write |-> IF valid_image_response(response)
                                               THEN w ELSE "none"])
          /\ d_written' = IF valid_image_response(response) /\ w # "open_failed"
                          THEN Append(d_written, response.body) ELSE d_written
          /\ IF valid_image_response(response) /\ w = "written"
             THEN /\ d_cache' = response.body
                  /\ d_stats' = [d_stats EXCEPT !.downloaded = @ + 1]
                  /\ d_ret' = "True"
                  /\ d_pc' = "returned"
                  /\ d_attempt' = d_attempt
             ELSE /\ d_cache' = IF valid_image_response(response) /\ w = "truncated"
                                THEN TruncatedImage ELSE d_cache
                  /\ IF last_attempt(d_attempt)
                     THEN /\ d_stats' = count_failed(d_stats, "request")
                          /\ d_ret' = "False"
                          /\ d_pc' = "returned"
                          /\ d_attempt' = d_attempt
                     ELSE IF d_attempt + 1 >= max_retries
                     THEN /\ d_ret' = "False"
                          /\ d_pc' = "returned"
                          /\ UNCHANGED <<d_stats, d_attempt>>
                     ELSE /\ d_attempt' = d_attempt + 1
                          /\ UNCHANGED <<d_stats, d_ret, d_pc>>
    /\ UNCHANGED <<d_domain, d_calls,
                   sync_vars, write_vars, fetch_vars, main_vars, update_vars,
                   hasher_vars,
                   batch_vars>>

\* A later batch asks for the same filename again; the cache directory is
\* what the first call left.
DownloadAgain ==
    /\ d_pc = "returned"
    /\ d_calls = 1
    /\ d_calls' = 2
    /\ d_pc' = "check_cache"
    /\ d_attempt' = 0
    /\ d_log' = <<>>
    /\ d_ret' = "none"
    /\ d_stats' = NoStats
    /\ UNCHANGED <<d_domain, d_cache, d_written,
                   sync_vars, write_vars, fetch_vars, main_vars, update_vars,
                   hasher_vars,
                   batch_vars>>

DownloadNext == DownloadCheckCache \/ DownloadRequest \/ DownloadAgain

\* The event loop runs the call, and every request ends, with an answer or
\* with the session's timeout.
DownloadFairness == WF_vars(DownloadCheckCache) /\ WF_vars(DownloadRequest)
SpecDownload == DownloadInit /\ [][DownloadNext]_vars /\ DownloadFairness

\* ------------------------------------------------------ multi-file passes
\* The largest number of files handed to a pass.
MaxFiles == 3
\* The per-file functions of the five multi-file passes.
Passes == {"remove_duplicates_from_file", "sort_mappings_file", "validate_json_format",
           "validate_hash_file", "generate_minified_file"}
create_success_result(processed_files, total_files) ==
    [ValidationResult(TRUE) EXCEPT !.processed_files = processed_files,
                                   !.total_files = total_files]
create_error_result(error_type) ==
    add_error(ValidationResult(FALSE), Err(error_type, "", ""))
\* validate_hash_uniqueness counts its mapping as one file of one, whether
\* it found an error or not.
validate_hash_uniqueness(valid) ==
    [(IF valid THEN ValidationResult(TRUE)
      ELSE add_error(ValidationResult(TRUE), Err("invalid_hash_format", "", "")))
     EXCEPT !.processed_files = 1, !.total_files = 1]
\* What the per-file function of a pass returns for a file: the success
\* result counting one file of one, or an error result counting none; the
\* hash validation returns validate_hash_uniqueness's result for a file it
\* could read.
FileResults(pass) ==
    IF pass = "validate_hash_file"
    THEN {validate_hash_uniqueness(TRUE), validate_hash_uniqueness(FALSE),
          create_error_result("file_read_error")}
    ELSE {create_success_result(1, 1), create_error_result("file_read_error")}
merge(self, other) ==
    [self EXCEPT !.success = @ /\ other.success,
                 !.errors = @ \o other.errors,
                 !.warnings = @ \o other.warnings,
                 !.processed_files = @ + other.processed_files,
                 !.total_files = @ + other.total_files]
\* One pass of the loop: merge the file's result, then count the file when
\* its result is successful.
process_file(overall_result, file_result) ==
    IF file_result.success
    THEN [merge(overall_result, file_result) EXCEPT !.processed_files = @ + 1]
    ELSE merge(overall_result, file_result)

BatchInit ==
    /\ b_pass \in Passes
    /\ \E n \in 0..MaxFiles : b_files \in [1..n -> FileResults(b_pass)]
    /\ b_i = 0
    /\ b_overall = [ValidationResult(TRUE) EXCEPT !.total_files = Len(b_files)]
    /\ b_pc = "loop"
    /\ SyncIdle
    /\ WriteIdle
    /\ FetchIdle
    /\ MainIdle
    /\ UpdateIdle
    /\ HasherIdle
    /\ DownloadIdle

BatchFile ==
    /\ b_pc = "loop"
    /\ b_i < Len(b_files)
    /\ b_overall' = process_file(b_overall, b_files[b_i + 1])
    /\ b_i' = b_i + 1
    /\ UNCHANGED <<b_pass, b_files, b_pc>>
    /\ UNCHANGED <<sync_vars, write_vars, fetch_vars, main_vars, update_vars,
                   hasher_vars, download_vars>>

BatchReturn ==
    /\ b_pc = "loop"
    /\ b_i = Len(b_files)
    /\ b_pc' = "returned"
    /\ UNCHANGED <<b_pass, b_files, b_i, b_overall>>
    /\ UNCHANGED <<sync_vars, write_vars, fetch_vars, main_vars, update_vars,
                   hasher_vars, download_vars>>

BatchNext == BatchFile \/ BatchReturn
SpecBatch == BatchInit /\ [][BatchNext]_vars

\* ================================================================ claims
\* The hash mapping the current call found on disk when it started.
Before == IF hash_file_before.kind = "json" THEN hash_file_before.data ELSE <<>>
\* The hash mapping on disk now.
OnDisk == IF hash_file.kind = "json" THEN hash_file.data ELSE <<>>
\* The filename mapping on disk.
FilenamesOnDisk == IF filename_file.kind = "json" THEN filename_file.data ELSE <<>>
\* The characters of the filename mapping that no entry of the hash mapping
\* had when the call started.
MissingAtStart == Values(FilenamesOnDisk) \ Values(Before)
\* update_hash_mapping was called with a batch that is not empty.
MergeCalled == pc = "done" /\ exit_path \in {"synced", "update_failed"}
\* Entry <<hash, character>> of a batch collides with the mapping on disk.
InConflict(entry) == HasKey(Before, entry[1]) /\ Get(Before, entry[1]) # entry[2]
\* The filenames that the filename mapping gives character c, in its order.
Candidates(c) ==
    LET mapped(f) == Get(FilenamesOnDisk, f) = c
    IN SelectSeq(KeyList(FilenamesOnDisk), mapped)
\* The cached file of filename f is there and gives a hash.
Usable(f) == cache[f].kind # "absent" /\ hash_image_file(cache[f]) # <<>>
\* The hashing loop of process_missing_characters ran in this call.
HashingRan == process.exit \in {"hashed", "hash_failed"}

\* C1 (conflict isolation): when the batch handed to update_hash_mapping
\* holds an entry whose hash is on disk under another character, every
\* entry of the batch that is not in conflict is on disk after the call.
C1_ConflictIsolation ==
    (MergeCalled /\ \E i \in 1..Len(process.hash_results) :
                        InConflict(process.hash_results[i]))
    => \A i \in 1..Len(process.hash_results) :
          ~InConflict(process.hash_results[i])
          => /\ HasKey(OnDisk, process.hash_results[i][1])
             /\ Get(OnDisk, process.hash_results[i][1]) = process.hash_results[i][2]

\* C2 (no overwrite): at every point of a call, every key the hash mapping
\* had when the call started is still on disk with the same character, and
\* every key on disk that was not there before is a key of the batch of new
\* hashes, with the batch's character.
C2_NoOverwrite ==
    /\ \A k \in Keys(Before) : HasKey(OnDisk, k) /\ Get(OnDisk, k) = Get(Before, k)
    /\ \A k \in Keys(OnDisk) \ Keys(Before) :
          /\ HasKey(process.hash_results, k)
          /\ Get(OnDisk, k) = Get(process.hash_results, k)
C2_Witness ==
    /\ pc = "done" /\ exit_path = "synced" /\ write_state = "ok"
    /\ Len(Before) > 0
    /\ Len(OnDisk) > Len(Before)

\* C3 (idempotence): when the first call succeeded and computed a hash for
\* every missing character, the second call on the same files finds no
\* missing character and leaves by the no-op return.
C3_Idempotence ==
    (/\ history # <<>>
     /\ history[1].success
     /\ history[1].every_missing_hashed
     /\ pc # "idle")
    => missing_characters = {} /\ exit_path = "noop"

\* C4 (a fetch failure does not block other items): when the fetch of some
\* filename failed, the failure is recorded in the result and every missing
\* character that has a fetched candidate image has that image's hash on
\* disk, under the character, when sync_domain returns.
C4_FetchFailureIsolated ==
    (pc = "done" /\ process.stats.failed > 0)
    => /\ result.errors # <<>>
       /\ \A i \in 1..Len(char_to_filenames) :
            \A j \in 1..Len(char_to_filenames[i][2]) :
               LET f == char_to_filenames[i][2][j] IN
               (cache[f].kind = "image"
                /\ \A jj \in 1..(j - 1) : ~Usable(char_to_filenames[i][2][jj]))
               => /\ HasKey(OnDisk, hash_image_file(cache[f]))
                  /\ Get(OnDisk, hash_image_file(cache[f])) = char_to_filenames[i][1]

\* C5 (failed characters are recorded): after the hashing loop, every
\* missing character none of whose candidates gives a hash is in the list of
\* failed characters and has an error in the result.
C5_FailedCharactersRecorded ==
    (pc = "done" /\ HashingRan)
    => \A c \in missing_characters :
          (\A j \in 1..Len(Candidates(c)) : ~Usable(Candidates(c)[j]))
          => /\ \E i \in 1..Len(process.failed_hashes) : process.failed_hashes[i] = c
             /\ \E i \in 1..Len(result.errors) :
                   result.errors[i].kind = "failed_character"
                   /\ result.errors[i].subject = c

\* C6 (first success, in insertion order): the candidates of every missing
\* character are the filenames the filename mapping gives it, in the
\* mapping's order; once the hashing loop ran, the candidates of the
\* character that were hashed are those up to its first usable one, the
\* hash of that one is a key of the new hashes, and a hash recorded under
\* the character is the hash of that one.
C6_FirstSuccessInOrder ==
    (pc \in {"process", "merge", "done"} /\ exit_path # "noop")
    => \A c \in missing_characters :
          LET cand == Candidates(c)
              WasHashed(f) == \E i \in 1..Len(process.hashed) : process.hashed[i] = f
              UsableAt == {j \in 1..Len(cand) : Usable(cand[j])}
              first == CHOOSE j \in UsableAt : \A jj \in UsableAt : j <= jj
          IN /\ HasKey(char_to_filenames, c)
             /\ Get(char_to_filenames, c) = cand
             /\ HashingRan =>
                  /\ \A i, j \in 1..Len(process.hashed) :
                        process.hashed[i] = process.hashed[j] => i = j
                  /\ UsableAt = {} =>
                        /\ \A j \in 1..Len(cand) : WasHashed(cand[j])
                        /\ c \notin Values(process.hash_results)
                  /\ UsableAt # {} =>
                        /\ \A j \in 1..Len(cand) : WasHashed(cand[j]) <=> j <= first
                        /\ HasKey(process.hash_results, hash_image_file(cache[cand[first]]))
                        /\ \A i \in 1..Len(process.hash_results) :
                              process.hash_results[i][2] = c
                              => process.hash_results[i][1] =
                                     hash_image_file(cache[cand[first]])
C6_Witness ==
    /\ pc = "merge"
    /\ \E c \in missing_characters :
          /\ Len(Candidates(c)) = 2
          /\ Usable(Candidates(c)[1]) /\ Usable(Candidates(c)[2])
          /\ cache[Candidates(c)[1]] # cache[Candidates(c)[2]]
          /\ Get(process.hash_results, hash_image_file(cache[Candidates(c)[1]])) = c
\* The other case of C6: the first candidate is there and gives no hash, the
\* second one is hashed too.
C6_WitnessSkipped ==
    /\ pc = "merge"
    /\ \E c \in missing_characters :
          /\ Len(Candidates(c)) = 2
          /\ ~Usable(Candidates(c)[1]) /\ Usable(Candidates(c)[2])
          /\ process.hashed = Candidates(c)

\* C7 (no-op short circuit): when every character of the filename mapping
\* is a value of the hash mapping, sync_domain returns success by the no-op
\* return, having asked for no download and written nothing.
C7_NoOpShortCircuit ==
    (pc = "done" /\ MissingAtStart = {})
    => /\ result.success
       /\ exit_path = "noop"
       /\ process.requested = <<>>
       /\ process.stats = NoStats
       /\ write_state = "none"
       /\ hash_file = hash_file_before
C7_Witness ==
    /\ pc = "done" /\ exit_path = "noop"
    /\ Len(FilenamesOnDisk) > 0
    /\ Values(FilenamesOnDisk) \subseteq Values(Before)

\* C8 (unreadable mapping file): when the filename mapping file or the hash
\* mapping file exists and cannot be read or parsed, sync_domain returns a
\* failed result and the hash mapping file is as it was.
C8_UnreadableMappingFails ==
    (pc = "done"
     /\ (filename_file.kind = "corrupt" \/ hash_file_before.kind = "corrupt"))
    => ~result.success /\ hash_file = hash_file_before

\* C9 (write failure): when write_json_file failed to write the merged hash
\* mapping, sync_domain returns a failed result.
C9_WriteFailureReported ==
    (pc = "done" /\ write_state = "failed") => ~result.success

\* C10 as claimed: for a domain without configuration sync_domain returns a
\* failed result, whatever the mapping files hold.
C10_NoConfigAlwaysFails ==
    (pc = "done" /\ domain \notin DOMAIN DOMAIN_CONFIGS) => ~result.success
\* C10 as amended: for a domain without configuration sync_domain returns a
\* failed result, with the missing configuration as its error and nothing
\* downloaded or written, when a character of the filename mapping is
\* missing from the hash mapping; when none is missing it returns the no-op
\* success.
C10_NoConfigFailsWhenMissing ==
    (pc = "done" /\ domain \notin DOMAIN DOMAIN_CONFIGS)
    => IF MissingAtStart # {}
       THEN /\ ~result.success
            /\ \E i \in 1..Len(result.errors) : result.errors[i].kind = "no_config"
            /\ process.requested = <<>>
            /\ hash_file = hash_file_before
       ELSE result.success /\ exit_path = "noop"
C10_Witness ==
    /\ pc = "done" /\ domain \notin DOMAIN DOMAIN_CONFIGS
    /\ exit_path = "no_config"
    /\ ~result.success

\* C11 (all-or-nothing write): at every step of write_json_file, a failure
\* or an interruption at any step included, the target holds what it held
\* when the call started or the whole of the new table; once False was
\* returned it holds what it held, and once True was returned the new table.
C11_AllOrNothing ==
    /\ fs[TargetPath] \in {w_prev, JsonFile(w_data)}
    /\ fs[TargetPath].kind # "partial"
    /\ w_ret = "False" => fs[TargetPath] = w_prev
    /\ w_ret = "True" => fs[TargetPath] = JsonFile(w_data)
\* json.dump failed half-way through a table that differs from the target's.
C11_Witness ==
    /\ w_pc = "returned" /\ w_ret = "False"
    /\ w_dumped > 0 /\ w_dumped < Len(w_data)
    /\ w_prev.kind = "json" /\ w_prev.data # w_data
    /\ fs[TargetPath] = w_prev
\* The call was interrupted between the close of the temporary file and the
\* rename.
C11_WitnessInterrupted ==
    /\ w_pc = "interrupted"
    /\ fs[temp_path(TargetPath)] = JsonFile(w_data)
    /\ fs[TargetPath] = w_prev /\ w_prev # JsonFile(w_data)

\* The positions of io_log that hold event e.
At(e) == {i \in 1..Len(io_log) : io_log[i] = e}
\* A write of the hash mapping file is the last thing a call does, at most
\* once, after every download and hashing; the table then on disk is the
\* table the call found plus the new hashes.
WrittenLast ==
    /\ Cardinality(At("write")) <= 1
    /\ \A i \in At("write") : i = Len(io_log) /\ pc = "done"
    /\ write_state = "ok" =>
          /\ At("write") # {}
          /\ OnDisk = DictUpdate(Before, process.hash_results)

\* C12 as claimed: within one call of sync_domain the hash mapping file is
\* read once, as the first thing the call does, and written at most once,
\* as the last thing, after all downloading and hashing; the table written
\* is the table read at the start plus the new entries.
C12_ReadOnceWrittenLast ==
    /\ Cardinality(At("read")) <= 1
    /\ \A i \in At("read") : i = 1
    /\ WrittenLast
\* C12 as amended: the file, when it exists, is read as the first thing the
\* call does and once more by update_hash_mapping, after all downloading and
\* hashing and before nothing but the write; it is written at most once, as
\* the last thing, and the table written is the table read plus the new
\* entries.
C12_ReadAtStartAndBeforeWrite ==
    /\ Cardinality(At("read")) <= 2
    /\ (pc # "idle" /\ FileExists(hash_file_before)) => 1 \in At("read")
    /\ \A i \in At("read") :
          \/ i = 1
          \/ /\ At("hash") # {}
             /\ \A j \in At("download") \cup At("hash") : j < i
             /\ \A j \in (i + 1)..Len(io_log) : io_log[j] = "write"
    /\ WrittenLast
C12_Witness ==
    /\ pc = "done" /\ write_state = "ok"
    /\ io_log = <<"read", "download", "hash", "read", "write">>
    /\ Len(Before) > 0
    /\ Len(OnDisk) > Len(Before)

\* C13 (bounded concurrency): at every moment of a batch at most
\* max_concurrent tasks are executing download_image_async, and the fetch of
\* every filename of the batch eventually runs.
C13_BoundedConcurrency ==
    /\ [](Cardinality(InFlight) <= max_concurrent)
    /\ \A i \in 1..MaxFetch :
          <>(i \in 1..Len(f_task) => f_task[i].st \in {"fetching", "done"})
\* The limit is reached while a task waits, and that task has run in the end.
C13_Witness ==
    /\ Cardinality(InFlight) = max_concurrent
    /\ \E i \in InFlight : f_task[i].attempt > 0
    /\ Waiters # {}
C13_WitnessAllRan ==
    /\ f_pc = "done"
    /\ Len(f_task) > max_concurrent
    /\ f_stats.cached = 0

\* C14 (completion order does not matter): the second run of a batch, from
\* the same cache directory and with the same answers per filename, gives
\* the same new hashes, failed characters, success flag and counters as the
\* first, whatever the order in which the requests of either run ended.
C14_OrderIndependent ==
    (f_pc = "done" /\ ~f_first.none) => f_out = f_first

\* The loop over the domains was entered and the run has left it.
SyncEnded ==
    /\ m_i > 0 \/ m_raised # {}
    /\ m_pc \in {"minify", "exit", "exited"}
\* C15 (a failed sync is a result, not an exception): no call of sync_domain
\* ends in an exception, and once the synchronisation of a list of domains
\* has ended every domain of the list has a result, whether the domains
\* were discovered or given with --domains.
C15_EveryDomainHasResult ==
    /\ m_raised = {}
    /\ SyncEnded => \A i \in 1..Len(m_domains) : HasKey(m_sync_results, m_domains[i])

\* C16 (exit code): when main has exited and a validation step, the
\* minification or the sync of some domain returned a failed result, the
\* exit code is not 0.
C16_ExitCodeReflectsFailure ==
    (m_pc = "exited" /\ \E i \in 1..Len(m_returned) : ~m_returned[i][2].success)
    => m_exit # 0

\* The hash mapping the file held before the direct call, and after it.
UpdateBefore == IF u_file.kind = "json" THEN u_file.data ELSE <<>>
UpdateAfter == IF u_out.file.kind = "json" THEN u_out.file.data ELSE <<>>
\* Entry <<H, c>> of the batch is in the mapping already, with the same c.
AlreadyThere(entry) ==
    HasKey(UpdateBefore, entry[1]) /\ Get(UpdateBefore, entry[1]) = entry[2]
\* C17 (same hash, same character is a no-op): an entry of the batch whose
\* hash is in the hash mapping with the same character gives no conflict and
\* no error, and a batch of such entries leaves the mapping with exactly the
\* entries it had, in a successful result.
C17_SameEntryNoOp ==
    u_out.called =>
       /\ \A i \in 1..Len(u_new) :
             AlreadyThere(u_new[i]) =>
                \A j \in 1..Len(u_out.result.errors) :
                   u_out.result.errors[j].hash # u_new[i][1]
       /\ (\A i \in 1..Len(u_new) : AlreadyThere(u_new[i])) =>
             /\ u_out.result.success
             /\ u_out.result.errors = <<>>
             /\ UpdateAfter = UpdateBefore
C17_Witness ==
    /\ u_out.called /\ u_out.written
    /\ Len(u_new) > 0 /\ Len(UpdateBefore) > Len(u_new)
    /\ \A i \in 1..Len(u_new) : AlreadyThere(u_new[i])
    /\ UpdateAfter = UpdateBefore

\* A string of hash_size * hash_size characters, each "0" or "1".
WellFormedHash(h) ==
    /\ Len(h) = hash_size * hash_size
    /\ \A i \in 1..Len(h) : h[i] \in {"0", "1"}
\* The content decodes to an image that gives a full grid of pixels.
Hashable(content) ==
    content.kind = "image" /\ Len(content.pixels) >= (hash_size + 1) * hash_size
\* C18 as claimed: every string hash_image_data and hash_image_file return
\* has exactly hash_size * hash_size characters, each "0" or "1", for every
\* input.
C18_AlwaysFullLength ==
    h_fn \in {"hash_image_data", "hash_image_file"} => WellFormedHash(h_ret)
\* C18 as amended: for an input that decodes and can be preprocessed the
\* string returned has exactly hash_size * hash_size characters, each "0" or
\* "1"; for every other input it is the empty string.
C18_FullLengthOrEmpty ==
    h_fn \in {"hash_image_data", "hash_image_file"} =>
       IF Hashable(h_args.content) THEN WellFormedHash(h_ret) ELSE h_ret = <<>>
C18_Witness ==
    /\ h_fn = "hash_image_file"
    /\ Hashable(h_args.content)
    /\ WellFormedHash(h_ret)
    /\ \E i, j \in 1..Len(h_ret) : h_ret[i] = "0" /\ h_ret[j] = "1"
\* The other case of C18: an image that cannot be preprocessed.
C18_WitnessEmpty ==
    /\ h_fn = "hash_image_data"
    /\ h_args.content.kind = "image" /\ ~Hashable(h_args.content)
    /\ h_ret = <<>>

\* C19 (the bits of the difference hash): for a row-major grid of width
\* hash_size + 1 and height hash_size, the character of _calculate_dhash's
\* string at index y * hash_size + x is "1" when pixel (x, y) is less than
\* pixel (x + 1, y) and "0" otherwise, equal pixels included.
C19_BitIsLeftLessRight ==
    (h_fn = "_calculate_dhash" /\ Len(h_args.pixels) = (hash_size + 1) * hash_size)
    => /\ Len(h_ret) = hash_size * hash_size
       /\ \A y \in 0..(hash_size - 1) : \A x \in 0..(hash_size - 1) :
             h_ret[y * hash_size + x + 1] =
                IF h_args.pixels[y * (hash_size + 1) + x + 1]
                       < h_args.pixels[y * (hash_size + 1) + x + 2]
                THEN "1" ELSE "0"
\* A grid with an equal pair, a rising pair and a falling pair.
C19_Witness ==
    /\ h_fn = "_calculate_dhash"
    /\ Len(h_args.pixels) = (hash_size + 1) * hash_size
    /\ h_args.pixels[1] = h_args.pixels[2]
    /\ h_args.pixels[2] < h_args.pixels[3]
    /\ h_args.pixels[hash_size + 2] > h_args.pixels[hash_size + 3]
    /\ h_ret[1] = "0" /\ h_ret[2] = "1" /\ h_ret[hash_size + 1] = "0"

\* C20 (Hamming distance): for strings of equal length the distance is
\* between 0 and the length, is the same for the swapped arguments, and is 0
\* exactly when the strings are equal; for strings of different lengths
\* hamming_distance returns -1 and similarity_percentage returns 0.
C20_HammingDistance ==
    /\ h_fn = "hamming_distance" =>
          IF Len(h_args.a) = Len(h_args.b)
          THEN /\ 0 <= h_ret /\ h_ret <= Len(h_args.a)
               /\ h_ret = hamming_distance(h_args.b, h_args.a)
               /\ h_ret = 0 <=> h_args.a = h_args.b
          ELSE h_ret = -1
    /\ (h_fn = "similarity_percentage" /\ Len(h_args.a) # Len(h_args.b))
          => h_ret.num = 0
C20_Witness ==
    /\ h_fn = "hamming_distance"
    /\ Len(h_args.a) = Len(h_args.b)
    /\ 0 < h_ret /\ h_ret < Len(h_args.a)
\* The other case of C20: strings of different lengths.
C20_WitnessMismatch ==
    /\ h_fn = "similarity_percentage"
    /\ Len(h_args.a) # Len(h_args.b) /\ Len(h_args.a) > 0 /\ Len(h_args.b) > 0
    /\ h_ret = Percent(0, 1)

\* The loop of download_image_async was entered and the call has returned.
LoopReturned == d_pc = "returned" /\ d_log # <<>>
\* C21 (retry count of the domain's configuration): when the fetch of a
\* filename is reported as failed, the number of requests that were made is
\* the max_retries of the domain's DomainConfig.
C21_AttemptsAreConfiguredRetries ==
    (LoopReturned /\ d_ret = "False")
        => Len(d_log) = DOMAIN_CONFIGS[d_domain].max_retries

\* C22 (success means validated content): when download_image_async reports
\* success, the file at the cache path, which is what gets hashed, is a
\* decodable image, on the cached path too; and every content written to
\* the cache had passed validation.
C22_SuccessMeansValidated ==
    /\ (d_pc = "returned" /\ d_ret = "True") => d_cache.kind = "image"
    /\ \A i \in 1..Len(d_written) : d_written[i].kind = "image"

\* Request k of the current call failed as an attempt: the answer was no
\* valid image, or its content could not be written to the cache.
AttemptFailed(k) == ~d_log[k].valid \/ d_log[k].write # "written"
\* The call ends whenever it has started.
DownloadTerminates == (d_pc \in {"check_cache", "request"}) ~> (d_pc = "returned")
\* C28 as claimed: an uncached filename gets at most max_retries requests,
\* no request follows one that returned a valid image, failure is reported
\* only after max_retries failed attempts and is counted exactly once, and
\* the call always terminates.
C28_StopsAtFirstValidResponse ==
    /\ [](LoopReturned =>
            /\ Len(d_log) <= max_retries
            /\ \A k \in 1..(Len(d_log) - 1) : ~d_log[k].valid
            /\ d_ret = "False" =>
                  /\ Len(d_log) = max_retries
                  /\ \A k \in 1..Len(d_log) : AttemptFailed(k)
                  /\ d_stats.failed = 1)
    /\ DownloadTerminates
\* C28 as amended: an uncached filename gets at most max_retries requests,
\* no request follows one that returned a valid image which was written to
\* the cache, a valid image that cannot be written is retried like a failed
\* request, failure is reported only after max_retries failed attempts and is
\* counted exactly once, success is counted as one download, and the call
\* always terminates.
C28_StopsAtFirstStoredImage ==
    /\ [](LoopReturned =>
            /\ Len(d_log) <= max_retries
            /\ \A k \in 1..(Len(d_log) - 1) : AttemptFailed(k)
            /\ d_ret = "True" =>
                  /\ ~AttemptFailed(Len(d_log))
                  /\ d_stats.downloaded = 1 /\ d_stats.failed = 0
            /\ d_ret = "False" =>
                  /\ Len(d_log) = max_retries
                  /\ AttemptFailed(Len(d_log))
                  /\ d_stats.failed = 1 /\ d_stats.downloaded = 0)
    /\ DownloadTerminates
\* A failed request, then a valid image that could not be written, then a
\* valid image that was.
C28_Witness ==
    /\ LoopReturned /\ d_ret = "True"
    /\ Len(d_log) = max_retries
    /\ ~d_log[1].valid
    /\ d_log[2].valid /\ d_log[2].write # "written"
\* The other case of C28: every attempt failed.
C28_WitnessFailed ==
    /\ LoopReturned /\ d_ret = "False"
    /\ Len(d_log) = max_retries
    /\ d_stats.failed = 1

\* Every task of the batch has returned.
BatchOver == f_pc \in {"tasks", "done"} /\ f_task # <<>> /\ AllDone
\* The tasks that returned a success, and those that returned a failure.
Succeeded == {i \in 1..Len(f_task) : f_task[i].ret = "ok"}
Failed == {i \in 1..Len(f_task) : f_task[i].ret = "failed"}
\* C27 (download accounting): once every task of a batch of distinct
\* filenames of a configured domain has returned, downloaded + cached +
\* failed is the number of filenames, failed counts the filenames that
\* failed and downloaded + cached those that succeeded, and the batch result
\* is a success exactly when every filename succeeded.
C27_DownloadAccounting ==
    BatchOver =>
       /\ f_stats.downloaded + f_stats.cached + f_stats.failed = Len(f_names)
       /\ f_stats.failed = Cardinality(Failed)
       /\ f_stats.downloaded + f_stats.cached = Cardinality(Succeeded)
       /\ batch_result([cache |-> f_cache, stats |-> f_stats], f_names).result.success
             <=> Succeeded = 1..Len(f_names)
\* A batch with one filename of each kind.
C27_Witness ==
    /\ BatchOver
    /\ f_stats.downloaded > 0 /\ f_stats.cached > 0 /\ f_stats.failed > 0
    /\ ~batch_result([cache |-> f_cache, stats |-> f_stats], f_names).result.success
\* The other case of C27: a batch with no failure.
C27_WitnessSuccess ==
    /\ BatchOver
    /\ Len(f_names) = MaxFetch
    /\ f_stats.failed = 0
    /\ batch_result([cache |-> f_cache, stats |-> f_stats], f_names).result.success

\* C29 (cache keys are unambiguous): two different filenames of a batch
\* never have the same cache path, so that once the batch is over the file
\* at the cache path of a filename that was fetched is the image the server
\* delivered for that filename.
C29_CacheKeysUnambiguous ==
    /\ \A i, j \in 1..Len(f_names) :
          i # j => get_cached_image_path(ConfiguredDomain, f_names[i])
                      # get_cached_image_path(ConfiguredDomain, f_names[j])
    /\ BatchOver =>
          \A i \in Succeeded :
             f_cache0[get_cached_image_path(ConfiguredDomain, f_names[i])].kind = "absent"
             => f_cache[get_cached_image_path(ConfiguredDomain, f_names[i])]
                   = f_behaviour[i][f_task[i].attempt + 1].body

\* C23 (a successful sync leaves no character without a hash): when
\* sync_domain has returned success, every character that is a value of the
\* filename mapping is a value of the hash mapping on disk.
C23_SuccessMeansAllHashed ==
    (pc = "done" /\ result.success) => Values(FilenamesOnDisk) \subseteq Values(OnDisk)

\* C24 (a failed sync persists nothing): when sync_domain has returned
\* success=false, the hash mapping file is what it was when the call
\* started.
C24_FailureLeavesFile ==
    (pc = "done" /\ ~result.success) => hash_file = hash_file_before
\* update_hash_mapping refused a batch for a conflict with a file that has
\* entries.
C24_Witness ==
    /\ pc = "done" /\ ~result.success
    /\ exit_path = "update_failed"
    /\ Len(process.hash_results) > 1
    /\ Len(Before) > 0
    /\ hash_file = hash_file_before
\* Another failure of C24: a download that failed with images of other
\* filenames already in the cache.
C24_WitnessDownloadFailed ==
    /\ pc = "done" /\ ~result.success
    /\ exit_path = "download_failed"
    /\ process.stats.downloaded > 0
    /\ Len(Before) > 0

\* The steps of the validation pipeline.
ValidationSteps == {"json_validation", "duplicate_removal", "sorting", "hash_validation"}
\* Step name of the validation pipeline returned a failed result.
StepFailed(name) ==
    \E i \in 1..Len(m_returned) : m_returned[i][1] = name /\ ~m_returned[i][2].success
\* No sync_domain call and no minification has changed a file.
NothingWritten ==
    /\ m_hash = [i \in 1..Len(m_domains) |-> m_world[i].hfile]
    /\ m_min = [i \in 1..Len(m_domains) |-> NoFile]
\* C25 (pipeline gating): after a failed JSON validation neither duplicate
\* removal nor sorting has run; after any failed validation step main has
\* exited with code 1, no sync_domain call and no minification has run, and
\* no hash mapping file or minified file has been written.
C25_PipelineGating ==
    /\ StepFailed("json_validation")
          => \A i \in 1..Len(m_returned) : m_returned[i][1] = "json_validation"
    /\ (\E name \in ValidationSteps : StepFailed(name))
          => /\ m_pc = "exited" /\ m_exit = 1
             /\ \A i \in 1..Len(m_returned) : m_returned[i][1] \in ValidationSteps
             /\ m_i = 0 /\ m_sync_results = <<>>
             /\ NothingWritten
\* A full pipeline whose sorting failed, on a domain whose sync would have
\* written a hash mapping.
C25_Witness ==
    /\ m_pc = "exited"
    /\ m_args.mode = "full_pipeline"
    /\ StepFailed("sorting")
    /\ \E i \in 1..Len(m_domains) :
          m_world[i] = MissingServed /\ m_domains[i] = ConfiguredDomain
\* The other case of C25: the JSON validation failed.
C25_WitnessJson ==
    /\ m_pc = "exited"
    /\ m_args.mode = "full_pipeline"
    /\ StepFailed("json_validation")
    /\ \E i \in 1..Len(m_domains) :
          m_world[i] = MissingServed /\ m_domains[i] = ConfiguredDomain

\* C26 (minification comes after synchronisation): whenever a minified hash
\* mapping has been produced, the sync loop of the run, when the run has
\* one, has handled every domain, and the minified file holds the entries of
\* the domain's hash mapping file as it is after the sync: the same keys,
\* values and key order.
C26_MinifiedAfterSync ==
    \A i \in 1..Len(m_min) :
       m_min[i].kind = "json"
       => /\ (run_sync /\ ~m_args.dry_run) => m_i = Len(m_domains)
          /\ m_pc \in {"exit", "exited"}
          /\ m_hash[i].kind = "json"
          /\ m_min[i].data = m_hash[i].data
\* A run whose sync merged a second entry into a hash mapping that was then
\* minified.
C26_Witness ==
    /\ m_pc = "exited"
    /\ m_args.mode = "full_pipeline"
    /\ \E i \in 1..Len(m_min) :
          /\ m_min[i].kind = "json"
          /\ m_hash[i] # m_world[i].hfile
          /\ Len(m_min[i].data) > 1

\* The files of the pass whose own result was successful.
SucceededFiles == {i \in 1..Len(b_files) : b_files[i].success}
\* C30 (batch counters): the result a multi-file pass over n files returns
\* has total_files = n, processed_files = the number of files whose own
\* result was successful, and success = TRUE exactly when every file
\* succeeded.
C30_BatchCounters ==
    b_pc = "returned"
    => /\ b_overall.total_files = Len(b_files)
       /\ b_overall.processed_files = Cardinality(SucceededFiles)
       /\ b_overall.success <=> (\A i \in 1..Len(b_files) : b_files[i].success)
====
